---- MODULE Spec2Model ----
(***************************************************************************)
(* A model of the FCD (foreign currency deposit) dashboard:                *)
(*   - calculateFCDStats, the statistics engine (api/fcd/calculations.ts)  *)
(*   - the entry form of FCDDashboard: field edits, handleTxTypeChange,    *)
(*     handleAddEntry (validation, payload construction, save, reset),     *)
(*     fetchData, and the OCR modal that fills the form.                   *)
(*                                                                         *)
(* Numbers are JavaScript doubles in the program.  The model uses small    *)
(* integers where the program adds, subtracts and multiplies whole         *)
(* amounts (binary64 is exact on them), and binary64 numbers (records      *)
(* [neg, m, e] standing for +-m * 2^e, rounded as IEEE 754 rounds) where   *)
(* the program divides or handles amounts with decimals.  The free-text    *)
(* note of a draft and the created_at of a row are carried along unread by *)
(* every condition of the program and are left out of the records.         *)
(***************************************************************************)
EXTENDS Integers, Sequences, FiniteSets, TLC

\* JavaScript null in a numeric field (thb: number | null, a NUMERIC column
\* that is NULL): a value set apart from every amount of the model.  No
\* arithmetic is done on it: the code's own conversions (Number, ??, ||)
\* are applied first, as in the source.
Null == -999999

\* JavaScript null where the program holds an object (stats: FCDStats | null).
NullObject == <<>>

(***************************************************************************)
(* Bounds of the model.                                                    *)
(***************************************************************************)
\* Longest entry list handed to calculateFCDStats in StatsSpec.
MaxEntries == 2
\* Most calls of addFCDEntry (accepted saves) in one run of the dashboard.
MaxSaves == 1

(***************************************************************************)
(* The data model (api/fcd/types.ts).                                      *)
(***************************************************************************)
FCDTxType == {"FX", "GOLD_BUY", "GOLD_SELL", "INTEREST", "TRANSFER"}

\* status is a free-form string; "PENDING" stands for any label other than
\* the three the engine gives a meaning to.
Statuses == {"IN", "OUT", "Interest", "PENDING"}

\* (usd, thb, rate) of the rows calculateFCDStats is applied to: usd is
\* NOT NULL in storage and may be any number, thb and rate are nullable.
Amounts ==
    { [usd |-> 500, thb |-> Null, rate |-> Null],
      [usd |-> 600, thb |-> Null, rate |-> Null],
      [usd |-> 50,  thb |-> Null, rate |-> 0],
      [usd |-> 100, thb |-> 3500, rate |-> 35],
      [usd |-> 200, thb |-> 7200, rate |-> 36],
      [usd |-> -50, thb |-> 0,    rate |-> 36] }

\* White space beyond the escapes of a string: U+000B, U+00A0, U+FEFF and
\* U+1680, each written as the character itself.
LineTabulation == ""
NoBreakSpace == " "
ByteOrderMark == "﻿"
OghamSpaceMark == " "

\* tx_type as a stored row may hold it: the column is free text, and the
\* engine trims it before comparing, so a padded spelling stands beside the
\* values of the type: a line tabulation before the word, a space after it.
PaddedGoldSell == LineTabulation \o "GOLD_SELL "
StoredTxType == FCDTxType \cup {PaddedGoldSell}

\* The rows with the given transaction types, statuses and amounts.
Rows(types, statuses, amounts) ==
    { [tx_type |-> t, status |-> s, usd |-> a.usd, thb |-> a.thb, rate |-> a.rate] :
        t \in types, s \in statuses, a \in amounts }

\* FCDEntry, restricted to the fields calculateFCDStats reads.
FCDEntry == Rows(StoredTxType, Statuses, Amounts)

\* The rows the lists of StatsSpec are made of: every transaction type
\* with every status, FX rows with and without a rate in every status,
\* gold sales of a further and of a negative amount, an interest payment
\* booked as a transfer, and a gold purchase that carries thb and a rate.
StatsEntry ==
    Rows(StoredTxType, Statuses, {a \in Amounts : a.usd = 500})
    \cup Rows({"FX"}, Statuses, {a \in Amounts : a.usd \in {50, 100, 200}})
    \cup Rows({"GOLD_SELL"}, {"IN", "OUT"}, {a \in Amounts : a.usd \in {600, -50}})
    \cup Rows({"TRANSFER"}, {"Interest"}, {a \in Amounts : a.usd = 50})
    \cup Rows({"GOLD_BUY"}, {"PENDING"}, {a \in Amounts : a.usd = 100})

(***************************************************************************)
(* JavaScript primitives used by the code.                                 *)
(***************************************************************************)
\* Number(x) on a number or null: Number(null) is 0.
Number(x) == IF x = Null THEN 0 ELSE x

\* x || 0 on a number: 0 and NaN are falsy (no NaN arises from the inputs).
OrZero(x) == IF x = 0 THEN 0 ELSE x

\* Truthiness of a number or null: null and 0 are falsy.
Truthy(x) == x # Null /\ x # 0

\* Math.abs
Abs(x) == IF x < 0 THEN -x ELSE x

\* The characters String.prototype.trim removes (ECMAScript WhiteSpace and
\* LineTerminator) among those a string of this module can hold: tab, line
\* feed, line tabulation, form feed, carriage return, space, no-break
\* space, the byte order mark and the Ogham space mark.  The others
\* (U+2000 to U+200A, U+2028, U+2029, U+202F, U+205F, U+3000) cannot be
\* written in a string here, so no text of the model carries them.
WhiteSpace ==
    {" ", "\t", "\n", "\r", "\f",
     LineTabulation, NoBreakSpace, ByteOrderMark, OghamSpaceMark}

\* s without its leading white space.
RECURSIVE TrimStart(_)
TrimStart(s) ==
    IF s # "" /\ Head(s) \in WhiteSpace THEN TrimStart(Tail(s)) ELSE s

\* s without its trailing white space.
RECURSIVE TrimEnd(_)
TrimEnd(s) ==
    IF s # "" /\ SubSeq(s, Len(s), Len(s)) \in WhiteSpace
    THEN TrimEnd(SubSeq(s, 1, Len(s) - 1)) ELSE s

\* String.prototype.trim
Trim(s) == TrimEnd(TrimStart(s))

\* (e.tx_type || '').trim()
TxTypeOf(e) == Trim(IF e.tx_type = "" THEN "" ELSE e.tx_type)

(***************************************************************************)
(* Texts and dates: the string methods the code calls, and date-fns' parse *)
(* and format on the two formats of parseExtractedDate.                    *)
(***************************************************************************)
\* The first n characters of s, and s without them.
Take(s, n) == SubSeq(s, 1, n)
Drop(s, n) == SubSeq(s, n + 1, Len(s))
StartsWith(s, prefix) == Len(s) >= Len(prefix) /\ Take(s, Len(prefix)) = prefix

\* The value of each decimal digit.
DigitValues == [c \in {ToString(k) : k \in 0..9} |-> CHOOSE k \in 0..9 : ToString(k) = c]
IsDigit(c) == c \in DOMAIN DigitValues
DigitValue(c) == DigitValues[c]

\* The number a string of decimal digits denotes.
RECURSIVE DigitsValue(_)
DigitsValue(s) ==
    IF s = "" THEN 0
    ELSE 10 * DigitsValue(Take(s, Len(s) - 1)) + DigitValue(Drop(s, Len(s) - 1))

\* How many digits s starts with, max at most: the match of /^\d{1,max}/.
RECURSIVE LeadingDigits(_, _)
LeadingDigits(s, max) ==
    IF max = 0 \/ s = "" \/ ~IsDigit(Head(s)) THEN 0
    ELSE 1 + LeadingDigits(Tail(s), max - 1)

UpperCaseLetters == "ABCDEFGHIJKLMNOPQRSTUVWXYZ"
LowerCaseLetters == "abcdefghijklmnopqrstuvwxyz"

\* String.prototype.toLowerCase on the letters A to Z; the /i flag of the
\* regular expressions compares texts this way.
LowerCaseOf ==
    [c \in {SubSeq(UpperCaseLetters, i, i) : i \in 1..26} |->
        LET i == CHOOSE j \in 1..26 : SubSeq(UpperCaseLetters, j, j) = c
        IN  SubSeq(LowerCaseLetters, i, i)]
RECURSIVE LowerCase(_)
LowerCase(s) ==
    IF s = "" THEN ""
    ELSE (IF Head(s) \in DOMAIN LowerCaseOf THEN LowerCaseOf[Head(s)] ELSE Head(s))
         \o LowerCase(Tail(s))

\* The position of the first occurrence of part in s, compared without
\* regard to case, or 0.
FirstIndexOf(s, part) ==
    LET text == LowerCase(s)
        sought == LowerCase(part)
        at == {i \in 1..(Len(s) - Len(part) + 1) :
                  SubSeq(text, i, i + Len(part) - 1) = sought}
    IN  IF at = {} THEN 0 ELSE CHOOSE i \in at : \A j \in at : i <= j

\* dateStr.replace(/Submission Date/i, "")
WithoutSubmissionDate(s) ==
    LET i == FirstIndexOf(s, "Submission Date")
    IN  IF i = 0 THEN s ELSE Take(s, i - 1) \o Drop(s, i + Len("Submission Date") - 1)

\* dateStr.split("-")[0]
BeforeFirstDash(s) ==
    LET i == FirstIndexOf(s, "-")
    IN  IF i = 0 THEN s ELSE Take(s, i - 1)

\* The month names of date-fns' en-US locale.
MonthNames ==
    << "january", "february", "march", "april", "may", "june", "july",
       "august", "september", "october", "november", "december" >>

\* No token of the format matches.
NoToken == [ok |-> FALSE, value |-> 0, rest |-> ""]
Token(value, rest) == [ok |-> TRUE, value |-> value, rest |-> rest]

\* A literal character sequence of the format string.
ParseLiteral(t, literal) ==
    IF t.ok /\ StartsWith(t.rest, literal)
    THEN Token(t.value, Drop(t.rest, Len(literal))) ELSE NoToken

\* The format token d: /^(3[0-1]|[0-2]?\d)/.
ParseDayOfMonth(s) ==
    LET n == IF Len(s) >= 2 /\ Take(s, 1) = "3" /\ SubSeq(s, 2, 2) \in {"0", "1"} THEN 2
             ELSE IF Len(s) >= 2 /\ Take(s, 1) \in {"0", "1", "2"} /\ IsDigit(SubSeq(s, 2, 2))
                  THEN 2
             ELSE IF Len(s) >= 1 /\ IsDigit(Take(s, 1)) THEN 1
             ELSE 0
    IN  IF n = 0 THEN NoToken ELSE Token(DigitsValue(Take(s, n)), Drop(s, n))

\* The format token MMMM: the wide name of a month, else its abbreviated
\* name of three letters, else its first letter alone; letters of either
\* case.  The value is the number of the first month that fits.  No name
\* is longer than September's nine letters.
ParseMonth(s) ==
    LET text == LowerCase(Take(s, IF Len(s) < 9 THEN Len(s) ELSE 9))
        wide == {m \in 1..12 : StartsWith(text, MonthNames[m])}
        abbreviated == {m \in 1..12 : StartsWith(text, Take(MonthNames[m], 3))}
        narrow == {m \in 1..12 : StartsWith(text, Take(MonthNames[m], 1))}
        First(S) == CHOOSE m \in S : \A k \in S : m <= k
    IN  IF wide # {} THEN Token(First(wide), Drop(s, Len(MonthNames[First(wide)])))
        ELSE IF abbreviated # {} THEN Token(First(abbreviated), Drop(s, 3))
        ELSE IF narrow # {} THEN Token(First(narrow), Drop(s, 1))
        ELSE NoToken

\* The format token yyyy: /^\d{1,4}/.
ParseYear(s) ==
    LET n == LeadingDigits(s, 4)
    IN  IF n = 0 THEN NoToken ELSE Token(DigitsValue(Take(s, n)), Drop(s, n))

\* The format token h: /^(1[0-2]|0?\d)/.
ParseHour12(s) ==
    LET n == IF Len(s) >= 2 /\ Take(s, 1) = "1" /\ SubSeq(s, 2, 2) \in {"0", "1", "2"} THEN 2
             ELSE IF Len(s) >= 2 /\ Take(s, 1) = "0" /\ IsDigit(SubSeq(s, 2, 2)) THEN 2
             ELSE IF Len(s) >= 1 /\ IsDigit(Take(s, 1)) THEN 1
             ELSE 0
    IN  IF n = 0 THEN NoToken ELSE Token(DigitsValue(Take(s, n)), Drop(s, n))

\* The format token mm: /^\d{1,2}/.
ParseMinute(s) ==
    LET n == LeadingDigits(s, 2)
    IN  IF n = 0 THEN NoToken ELSE Token(DigitsValue(Take(s, n)), Drop(s, n))

\* The format token a, on the day periods a slip prints: am, pm, a.m.,
\* p.m., a, p in letters of either case; the value is 1 for the afternoon.
DayPeriods == << "a.m.", "p.m.", "am", "pm", "a", "p" >>
ParseDayPeriod(s) ==
    LET text == LowerCase(Take(s, IF Len(s) < 4 THEN Len(s) ELSE 4))
        fits == {i \in 1..Len(DayPeriods) : StartsWith(text, DayPeriods[i])}
        i == CHOOSE j \in fits : \A k \in fits : j <= k
    IN  IF fits = {} THEN NoToken
        ELSE Token(IF Take(DayPeriods[i], 1) = "p" THEN 1 ELSE 0, Drop(s, Len(DayPeriods[i])))

\* No non-white-space character is left after the last token.
RECURSIVE IsBlank(_)
IsBlank(s) == s = "" \/ (Head(s) \in WhiteSpace /\ IsBlank(Tail(s)))

IsLeapYear(y) == y % 400 = 0 \/ (y % 4 = 0 /\ y % 100 # 0)
DaysInMonth(y, m) ==
    IF m = 2 THEN (IF IsLeapYear(y) THEN 29 ELSE 28)
    ELSE IF m \in {4, 6, 9, 11} THEN 30 ELSE 31

\* An Invalid Date.
InvalidDate == [valid |-> FALSE, year |-> 0, month |-> 0, day |-> 0, hours |-> 0, minutes |-> 0]

\* The token the parser finds after t, when t itself was found.
Then(t, Parser(_)) == IF t.ok THEN Parser(t.rest) ELSE NoToken

\* parse(text, "d MMMM yyyy", new Date())
ParseDateOnly(text) ==
    LET day == ParseDayOfMonth(text)
        month == Then(ParseLiteral(day, " "), ParseMonth)
        year == Then(ParseLiteral(month, " "), ParseYear)
    IN  IF /\ year.ok /\ IsBlank(year.rest)
           /\ day.value >= 1 /\ day.value <= DaysInMonth(year.value, month.value)
        THEN [valid |-> TRUE, year |-> year.value, month |-> month.value,
              day |-> day.value, hours |-> 0, minutes |-> 0]
        ELSE InvalidDate

\* parse(text, "d MMMM yyyy - h:mm a", new Date())
ParseDateWithTime(text) ==
    LET day == ParseDayOfMonth(text)
        month == Then(ParseLiteral(day, " "), ParseMonth)
        year == Then(ParseLiteral(month, " "), ParseYear)
        hour == Then(ParseLiteral(year, " - "), ParseHour12)
        minute == Then(ParseLiteral(hour, ":"), ParseMinute)
        period == Then(ParseLiteral(minute, " "), ParseDayPeriod)
    IN  IF /\ period.ok /\ IsBlank(period.rest)
           /\ day.value >= 1 /\ day.value <= DaysInMonth(year.value, month.value)
           /\ hour.value >= 1 /\ hour.value <= 12
           /\ minute.value <= 59
        THEN [valid |-> TRUE, year |-> year.value, month |-> month.value,
              day |-> day.value,
              hours |-> (hour.value % 12) + 12 * period.value,
              minutes |-> minute.value]
        ELSE InvalidDate

\* k in decimal digits, with zeros in front up to the given width.
RECURSIVE Padded(_, _)
Padded(k, width) ==
    IF Len(ToString(k)) >= width THEN ToString(k) ELSE "0" \o Padded(k, width - 1)

\* format(date, "yyyy-MM-dd'T'HH:mm") of a valid date.
FormatLocal(date) ==
    Padded(date.year, 4) \o "-" \o Padded(date.month, 2) \o "-" \o Padded(date.day, 2)
    \o "T" \o Padded(date.hours, 2) \o ":" \o Padded(date.minutes, 2)

(***************************************************************************)
(* IEEE 754 binary64 arithmetic.  JavaScript numbers are binary64: every   *)
(* +, -, * and / of the program yields the binary64 number nearest to the  *)
(* exact result (ties to the even mantissa).  The amounts of the model are *)
(* far from the largest and the smallest binary64 numbers, so overflow,    *)
(* subnormal numbers and the sign of zero do not arise.                    *)
(***************************************************************************)
\* A natural number as the sequence of its digits in base LimbBase, lowest
\* first and without high zeros; zero is the empty sequence.
LimbBits == 15
LimbBase == 32768

RECURSIVE BigNorm(_)
BigNorm(x) == IF x = <<>> \/ x[Len(x)] # 0 THEN x ELSE BigNorm(SubSeq(x, 1, Len(x) - 1))

RECURSIVE BigOfInt(_)
BigOfInt(k) == IF k = 0 THEN <<>> ELSE <<k % LimbBase>> \o BigOfInt(k \div LimbBase)

Limb(x, i) == IF 1 <= i /\ i <= Len(x) THEN x[i] ELSE 0

\* x + y
BigAdd(x, y) ==
    LET n == (IF Len(x) > Len(y) THEN Len(x) ELSE Len(y)) + 1
        s[i \in 0..n] ==
            IF i = 0 THEN 0 ELSE Limb(x, i) + Limb(y, i) + s[i - 1] \div LimbBase
    IN  BigNorm([i \in 1..n |-> s[i] % LimbBase])

\* x - y, for x >= y
BigSub(x, y) ==
    LET d[i \in 0..Len(x)] ==
            IF i = 0 THEN 0
            ELSE Limb(x, i) - Limb(y, i) - (IF d[i - 1] < 0 THEN 1 ELSE 0)
    IN  BigNorm([i \in 1..Len(x) |-> (d[i] + LimbBase) % LimbBase])

\* x < y
BigLess(x, y) ==
    IF Len(x) # Len(y) THEN Len(x) < Len(y)
    ELSE \E i \in 1..Len(x) : x[i] < y[i] /\ \A j \in (i + 1)..Len(x) : x[j] = y[j]

\* x * k, for a digit k
BigTimesLimb(x, k) ==
    LET n == Len(x) + 1
        p[i \in 0..n] ==
            IF i = 0 THEN 0 ELSE Limb(x, i) * k + p[i - 1] \div LimbBase
    IN  BigNorm([i \in 1..n |-> p[i] % LimbBase])

\* x * LimbBase^a
BigShiftLimbs(x, a) == IF x = <<>> THEN <<>> ELSE [i \in 1..a |-> 0] \o x

\* x * y
RECURSIVE BigMul(_, _)
BigMul(x, y) ==
    IF y = <<>> THEN <<>>
    ELSE BigAdd(BigTimesLimb(x, Head(y)), BigShiftLimbs(BigMul(x, Tail(y)), 1))

\* The number of bits of k, and of x.
RECURSIVE IntBitLen(_)
IntBitLen(k) == IF k = 0 THEN 0 ELSE 1 + IntBitLen(k \div 2)
BigBitLen(x) == IF x = <<>> THEN 0 ELSE LimbBits * (Len(x) - 1) + IntBitLen(x[Len(x)])

\* x * 2^s
BigShiftLeft(x, s) ==
    BigShiftLimbs(BigTimesLimb(x, 2 ^ (s % LimbBits)), s \div LimbBits)

\* The whole part of x / 2^s
BigShiftRight(x, s) ==
    LET a == s \div LimbBits
        b == s % LimbBits
    IN  BigNorm([i \in 1..(Len(x) - a) |->
                    Limb(x, a + i) \div 2 ^ b
                    + (Limb(x, a + i + 1) % 2 ^ b) * 2 ^ (LimbBits - b)])

\* The bit of x that counts 2^i, and whether a bit below it is set.
BigBit(x, i) == (Limb(x, i \div LimbBits + 1) \div 2 ^ (i % LimbBits)) % 2
BigLowBits(x, i) ==
    \/ \E j \in 1..(i \div LimbBits) : Limb(x, j) # 0
    \/ Limb(x, i \div LimbBits + 1) % 2 ^ (i % LimbBits) # 0

\* The digit r \div d, for r < d * LimbBase and a d whose highest digit is
\* at least LimbBase / 2: the estimate from the highest digits is at most
\* two too large and is lowered until d times it fits in r.
RECURSIVE LoweredDigit(_, _, _)
LoweredDigit(r, d, est) ==
    IF BigLess(r, BigTimesLimb(d, est)) THEN LoweredDigit(r, d, est - 1) ELSE est
QuotientDigit(r, d) ==
    IF BigLess(r, d) THEN 0
    ELSE LET n == Len(d)
             top == IF Len(r) > n THEN r[n + 1] * LimbBase + r[n] ELSE r[n]
             est == top \div d[n]
         IN  LoweredDigit(r, d, IF est > LimbBase - 1 THEN LimbBase - 1 ELSE est)

\* Long division of the digits i.. of x by d: the quotient's digits and the
\* remainder.
RECURSIVE BigDivFrom(_, _, _)
BigDivFrom(x, d, i) ==
    IF i > Len(x) THEN [q |-> <<>>, r |-> <<>>]
    ELSE LET above == BigDivFrom(x, d, i + 1)
             r == BigNorm(<<x[i]>> \o above.r)
             digit == QuotientDigit(r, d)
         IN  [q |-> <<digit>> \o above.q, r |-> BigSub(r, BigTimesLimb(d, digit))]

\* The whole part of x / d and whether the division is exact, for d > 0.
BigDiv(x, d) ==
    LET s == LimbBits - IntBitLen(d[Len(d)])
        res == BigDivFrom(BigShiftLeft(x, s), BigShiftLeft(d, s), 1)
    IN  [q |-> BigNorm(res.q), exact |-> res.r = <<>>]

\* A binary64 number: zero, or (-1)^neg * m * 2^e with m of exactly
\* MantissaBits bits.
MantissaBits == 53
DoubleZero == [neg |-> FALSE, m |-> <<>>, e |-> 0]

\* The binary64 number >= 0 nearest to x * 2^e (ties to even); inexact says
\* that x was cut off from a larger numeral, which then has at least
\* MantissaBits + 2 bits.
RoundToDouble(x, e, inexact) ==
    LET n == BigBitLen(x)
        k == n - MantissaBits
    IN  IF n = 0 THEN DoubleZero
        ELSE IF k <= 0 THEN [neg |-> FALSE, m |-> BigShiftLeft(x, -k), e |-> e + k]
        ELSE LET q == BigShiftRight(x, k)
                 half == BigBit(x, k - 1) = 1
                 sticky == inexact \/ BigLowBits(x, k - 1)
                 up == half /\ (sticky \/ BigBit(q, 0) = 1)
                 r == IF up THEN BigAdd(q, <<1>>) ELSE q
             IN  IF BigBitLen(r) > MantissaBits
                 THEN [neg |-> FALSE, m |-> BigShiftRight(r, 1), e |-> e + k + 1]
                 ELSE [neg |-> FALSE, m |-> r, e |-> e + k]

\* -a, and a with the sign given.
DoubleNeg(a) == IF a.m = <<>> THEN a ELSE [a EXCEPT !.neg = ~a.neg]
DoubleSigned(a, neg) == IF a.m = <<>> THEN a ELSE [a EXCEPT !.neg = neg]

\* The binary64 number of a whole number.
DoubleOfInt(k) ==
    DoubleSigned(RoundToDouble(BigOfInt(IF k < 0 THEN -k ELSE k), 0, FALSE), k < 0)

\* |a| < |b|
DoubleSmaller(a, b) ==
    IF b.m = <<>> THEN FALSE
    ELSE IF a.m = <<>> THEN TRUE
    ELSE IF a.e # b.e THEN a.e < b.e
    ELSE BigLess(a.m, b.m)

\* a < b
DoubleLess(a, b) ==
    IF a.neg # b.neg THEN a.neg
    ELSE IF a.neg THEN DoubleSmaller(b, a)
    ELSE DoubleSmaller(a, b)

\* a > 0
DoublePos(a) == a.m # <<>> /\ ~a.neg

\* Bits kept below the last place of the larger operand of a sum, and of
\* the quotient of a division.
GuardBits == 60

\* a + b
DoubleAdd(a, b) ==
    IF a.m = <<>> THEN b
    ELSE IF b.m = <<>> THEN a
    ELSE IF a.e - b.e > GuardBits THEN a
    ELSE IF b.e - a.e > GuardBits THEN b
    ELSE LET lo == IF a.e < b.e THEN a.e ELSE b.e
             x == BigShiftLeft(a.m, a.e - lo)
             y == BigShiftLeft(b.m, b.e - lo)
         IN  IF a.neg = b.neg
             THEN DoubleSigned(RoundToDouble(BigAdd(x, y), lo, FALSE), a.neg)
             ELSE IF BigLess(x, y)
             THEN DoubleSigned(RoundToDouble(BigSub(y, x), lo, FALSE), b.neg)
             ELSE DoubleSigned(RoundToDouble(BigSub(x, y), lo, FALSE), a.neg)

\* a - b
DoubleSub(a, b) == DoubleAdd(a, DoubleNeg(b))

\* a * b
DoubleMul(a, b) ==
    IF a.m = <<>> \/ b.m = <<>> THEN DoubleZero
    ELSE DoubleSigned(RoundToDouble(BigMul(a.m, b.m), a.e + b.e, FALSE), a.neg # b.neg)

\* a / b, for b # 0
DoubleDiv(a, b) ==
    IF a.m = <<>> THEN DoubleZero
    ELSE LET d == BigDiv(BigShiftLeft(a.m, GuardBits), b.m)
         IN  DoubleSigned(RoundToDouble(d.q, a.e - b.e - GuardBits, ~d.exact),
                          a.neg # b.neg)

\* Math.abs
DoubleAbs(a) == [a EXCEPT !.neg = FALSE]

\* The positive binary64 number m * 2^e, m a 53-bit mantissa.
PositiveDouble(m, e) == [neg |-> FALSE, m |-> m, e |-> e]

\* The binary64 numbers JSON.parse yields for 0.1, 0.2 and 0.3:
\* 0x1.999999999999ap-4, 0x1.999999999999ap-3, 0x1.3333333333333p-2.
DecimalAmounts ==
    { PositiveDouble(<<6554, 13107, 26214, 204>>, -56),
      PositiveDouble(<<6554, 13107, 26214, 204>>, -55),
      PositiveDouble(<<13107, 26214, 19660, 153>>, -54) }

(***************************************************************************)
(* calculateFCDStats (api/fcd/calculations.ts).                            *)
(***************************************************************************)
\* entries.filter(pred): Array.prototype.filter keeps the order.
Filter(s, keep(_)) == SelectSeq(s, keep)

\* entries.reduce((sum, e) => sum + term(e), init): a left fold from init.
Reduce(s, term(_), init) ==
    LET acc[i \in 0..Len(s)] == IF i = 0 THEN init ELSE acc[i - 1] + term(s[i])
    IN  acc[Len(s)]

\* Mutant: every row with a known status is counted as inflow.
IsInflowOrOutflow(e) == e.status = "IN" \/ e.status = "Interest" \/ e.status = "OUT"
\* Mutant: interest rows are not counted as inflow.
IsInflowInOnly(e) == e.status = "IN"
IsInflow(e) == e.status = "IN" \/ e.status = "Interest"
\* Mutant: every row that is not an inflow is an outflow.
IsOutflowWhenNotInflow(e) == ~IsInflow(e)
IsOutflow(e) == e.status = "OUT"
\* Mutant: interest is recognised by the transaction type, not the status.
IsInterestByTxType(e) == TxTypeOf(e) = "INTEREST"
IsInterest(e) == e.status = "Interest"
IsGoldSell(e) == TxTypeOf(e) = "GOLD_SELL"
IsGoldBuy(e) == TxTypeOf(e) = "GOLD_BUY"

UsdTerm(e) == Number(e.usd)
\* Mutant: the amount is summed with its sign.
AbsUsdTermSigned(e) == OrZero(Number(e.usd))
AbsUsdTerm(e) == Abs(OrZero(Number(e.usd)))
\* Mutant: only inflow rows add their thb.
ThbTermOfInflow(e) == IF IsInflow(e) THEN OrZero(Number(e.thb)) ELSE 0
ThbTerm(e) == OrZero(Number(e.thb))

\* Mutant: every row with an amount takes part, whatever its rate.
HasRateAnyRate(e) == Truthy(e.usd)
\* if (entry.rate && entry.usd && Number(entry.rate) > 0)
HasRate(e) == Truthy(e.rate) /\ Truthy(e.usd) /\ Number(e.rate) > 0
RateUsdTerm(e) == Number(e.usd)
RateWeightedTerm(e) == Number(e.usd) * Number(e.rate)

\* Mutant: without weights the rate defaults to 1.
WeightedAvgRateDefaultOne(totalUsdForRate, weightedRateSum) ==
    IF totalUsdForRate > 0
    THEN DoubleDiv(DoubleOfInt(weightedRateSum), DoubleOfInt(totalUsdForRate))
    ELSE DoubleOfInt(1)
\* const weighted_avg_rate = totalUsdForRate > 0 ? weightedRateSum / totalUsdForRate : 0
WeightedAvgRate(totalUsdForRate, weightedRateSum) ==
    IF totalUsdForRate > 0
    THEN DoubleDiv(DoubleOfInt(weightedRateSum), DoubleOfInt(totalUsdForRate))
    ELSE DoubleZero

\* Mutant: the value in dollars multiplies by the rate instead of dividing.
TotalValueUsdAsProduct(cash_remain, total_thb, weighted_avg_rate) ==
    DoubleAdd(DoubleOfInt(cash_remain),
              IF DoublePos(weighted_avg_rate)
              THEN DoubleMul(DoubleOfInt(total_thb), weighted_avg_rate)
              ELSE DoubleZero)
\* cash_remain + (weighted_avg_rate > 0 ? total_thb / weighted_avg_rate : 0)
TotalValueUsd(cash_remain, total_thb, weighted_avg_rate) ==
    DoubleAdd(DoubleOfInt(cash_remain),
              IF DoublePos(weighted_avg_rate)
              THEN DoubleDiv(DoubleOfInt(total_thb), weighted_avg_rate)
              ELSE DoubleZero)

\* const total_value_thb = total_thb + (cash_remain * weighted_avg_rate)
TotalValueThb(total_thb, cash_remain, weighted_avg_rate) ==
    DoubleAdd(DoubleOfInt(total_thb),
              DoubleMul(DoubleOfInt(cash_remain), weighted_avg_rate))

\* const total_in = entries.filter(...).reduce(...), and the like.
TotalIn(entries) == Reduce(Filter(entries, IsInflow), UsdTerm, 0)
TotalOut(entries) == Reduce(Filter(entries, IsOutflow), UsdTerm, 0)
InterestIncome(entries) == Reduce(Filter(entries, IsInterest), UsdTerm, 0)

calculateFCDStats(entries) ==
    LET total_in == TotalIn(entries)
        total_out == TotalOut(entries)
        cash_remain == total_in - total_out
        gold_sell == Reduce(Filter(entries, IsGoldSell), AbsUsdTerm, 0)
        gold_buy == Reduce(Filter(entries, IsGoldBuy), AbsUsdTerm, 0)
        gold_profit == gold_sell - gold_buy
        interest_income == InterestIncome(entries)
        total_thb == Reduce(entries, ThbTerm, 0)
        totalUsdForRate == Reduce(Filter(entries, HasRate), RateUsdTerm, 0)
        weightedRateSum == Reduce(Filter(entries, HasRate), RateWeightedTerm, 0)
        weighted_avg_rate == WeightedAvgRate(totalUsdForRate, weightedRateSum)
        total_value_thb == TotalValueThb(total_thb, cash_remain, weighted_avg_rate)
    IN  [ total_in |-> total_in,
          total_out |-> total_out,
          cash_remain |-> cash_remain,
          gold_profit |-> gold_profit,
          interest_income |-> interest_income,
          total_usd |-> cash_remain,
          total_thb |-> total_thb,
          weighted_avg_rate |-> weighted_avg_rate,
          total_value_thb |-> total_value_thb,
          total_value_usd |-> TotalValueUsd(cash_remain, total_thb, weighted_avg_rate),
          total_entries |-> Len(entries),
          active_entries |-> Len(Filter(entries, IsInflow)) ]

\* totalUsdForRate after the forEach loop.
TotalUsdForRate(entries) == Reduce(Filter(entries, HasRate), RateUsdTerm, 0)

\* The divisors of the divisions a call evaluates: weightedRateSum /
\* totalUsdForRate is evaluated only when totalUsdForRate > 0, and
\* total_thb / weighted_avg_rate only when weighted_avg_rate > 0.
Divisors(entries) ==
    LET totalUsdForRate == TotalUsdForRate(entries)
        weightedRateSum == Reduce(Filter(entries, HasRate), RateWeightedTerm, 0)
        weighted_avg_rate == WeightedAvgRate(totalUsdForRate, weightedRateSum)
    IN  (IF totalUsdForRate > 0 THEN {DoubleOfInt(totalUsdForRate)} ELSE {})
        \cup (IF DoublePos(weighted_avg_rate) THEN {weighted_avg_rate} ELSE {})

(***************************************************************************)
(* A call of calculateFCDStats, statement by statement, on the memory the  *)
(* function can reach: the array it was handed and the two bindings its    *)
(* forEach callback assigns to.                                            *)
(***************************************************************************)
\* No call has run yet: the bindings do not exist.
NoAccumulators == [totalUsdForRate |-> Null, weightedRateSum |-> Null]

\* Mutant: the two bindings are declared once, outside the function, and a
\* call goes on from the sums the call before it left.
DeclareAccumulatorsOnce(m) ==
    IF m.totalUsdForRate = Null
    THEN [m EXCEPT !.totalUsdForRate = 0, !.weightedRateSum = 0]
    ELSE m
\* let totalUsdForRate = 0; let weightedRateSum = 0: every call declares
\* the two bindings anew, whatever an earlier call left.
DeclareAccumulators(m) == [m EXCEPT !.totalUsdForRate = 0, !.weightedRateSum = 0]

\* The forEach callback on the i-th element: it reads entry.rate and
\* entry.usd and assigns to the two bindings, to nothing else.
VisitEntry(m, i) ==
    LET entry == m.entries[i]
    IN  IF HasRate(entry)
        THEN [m EXCEPT !.totalUsdForRate = @ + RateUsdTerm(entry),
                       !.weightedRateSum = @ + RateWeightedTerm(entry)]
        ELSE m

\* entries.forEach(entry => { ... })
ForEachEntry(m) ==
    LET after[i \in 0..Len(m.entries)] ==
            IF i = 0 THEN m ELSE VisitEntry(after[i - 1], i)
    IN  after[Len(m.entries)]

\* The call calculateFCDStats(entries) made when the bindings of the call
\* before it hold `bindings`: the array and the bindings as the call leaves
\* them, and the record it returns.  filter and reduce build their results
\* from the array they are called on and their callbacks read their
\* arguments only, so the statements before the loop leave the array as
\* they found it.
calculateFCDStatsCall(entries, bindings) ==
    LET m0 == [entries |-> entries,
               totalUsdForRate |-> bindings.totalUsdForRate,
               weightedRateSum |-> bindings.weightedRateSum]
        total_in == TotalIn(m0.entries)
        total_out == TotalOut(m0.entries)
        cash_remain == total_in - total_out
        gold_sell == Reduce(Filter(m0.entries, IsGoldSell), AbsUsdTerm, 0)
        gold_buy == Reduce(Filter(m0.entries, IsGoldBuy), AbsUsdTerm, 0)
        gold_profit == gold_sell - gold_buy
        interest_income == InterestIncome(m0.entries)
        total_thb == Reduce(m0.entries, ThbTerm, 0)
        m1 == DeclareAccumulators(m0)
        m2 == ForEachEntry(m1)
        weighted_avg_rate == WeightedAvgRate(m2.totalUsdForRate, m2.weightedRateSum)
        total_value_thb == TotalValueThb(total_thb, cash_remain, weighted_avg_rate)
    IN  [ entries |-> m2.entries,
          accumulators |-> [totalUsdForRate |-> m2.totalUsdForRate,
                            weightedRateSum |-> m2.weightedRateSum],
          ret |-> [ total_in |-> total_in,
                    total_out |-> total_out,
                    cash_remain |-> cash_remain,
                    gold_profit |-> gold_profit,
                    interest_income |-> interest_income,
                    total_usd |-> cash_remain,
                    total_thb |-> total_thb,
                    weighted_avg_rate |-> weighted_avg_rate,
                    total_value_thb |-> total_value_thb,
                    total_value_usd |-> TotalValueUsd(cash_remain, total_thb, weighted_avg_rate),
                    total_entries |-> Len(m2.entries),
                    active_entries |-> Len(Filter(m2.entries, IsInflow)) ] ]

\* Rows whose usd carries cents, as binary64 numbers.
DecimalEntry == [status : {"IN", "OUT"}, usd : DecimalAmounts]

\* .reduce((sum, e) => sum + Number(e.usd), 0) on binary64 numbers.
SumUsdDouble(s) ==
    LET acc[i \in 0..Len(s)] ==
            IF i = 0 THEN DoubleZero ELSE DoubleAdd(acc[i - 1], s[i].usd)
    IN  acc[Len(s)]

\* total_in and total_out of calculateFCDStats on rows whose usd carries
\* cents.
calculateTotalsDouble(entries) ==
    [ total_in |-> SumUsdDouble(Filter(entries, IsInflow)),
      total_out |-> SumUsdDouble(Filter(entries, IsOutflow)) ]

\* Gold rows whose usd carries cents, as binary64 numbers.
GoldEntry ==
    [tx_type : {"GOLD_SELL", "GOLD_BUY"}, status : {"IN", "OUT"}, usd : DecimalAmounts]

\* total_in, total_out, gold_profit and total_entries of calculateFCDStats
\* on gold rows whose usd carries cents; Math.abs(Number(e.usd) || 0) is
\* e.usd for these amounts.
calculateGoldDouble(entries) ==
    LET gold_sell == SumUsdDouble(Filter(entries, IsGoldSell))
        gold_buy == SumUsdDouble(Filter(entries, IsGoldBuy))
    IN  [ total_in |-> SumUsdDouble(Filter(entries, IsInflow)),
          total_out |-> SumUsdDouble(Filter(entries, IsOutflow)),
          gold_profit |-> DoubleSub(gold_sell, gold_buy),
          total_entries |-> Len(entries) ]

\* The binary64 numbers JSON.parse yields for the rates 30.04 and 35.5:
\* 0x1.e0a3d70a3d70ap+4 and 0x1.1c00000000000p+5.
DecimalRates ==
    { PositiveDouble(<<22282, 24903, 10485, 240>>, -48),
      PositiveDouble(<<0, 0, 0, 142>>, -47) }

\* Whole dollar amounts of the rows that carry a rate.
WholeUsd == {1, 3}

\* Rows with a whole usd and a rate that is zero or carries satang.
RatedEntry == [usd : WholeUsd, rate : {DoubleZero} \cup DecimalRates]

\* if (entry.rate && entry.usd && Number(entry.rate) > 0)
ParticipatesInRate(e) == e.rate # DoubleZero /\ e.usd # 0 /\ DoublePos(e.rate)

\* totalUsdForRate after the forEach over the first n rows.
RECURSIVE TotalUsdForRateDouble(_, _)
TotalUsdForRateDouble(entries, n) ==
    IF n = 0 THEN 0
    ELSE IF ParticipatesInRate(entries[n])
         THEN TotalUsdForRateDouble(entries, n - 1) + entries[n].usd
         ELSE TotalUsdForRateDouble(entries, n - 1)

\* weightedRateSum after the forEach over the first n rows.
RECURSIVE WeightedRateSumDouble(_, _)
WeightedRateSumDouble(entries, n) ==
    IF n = 0 THEN DoubleZero
    ELSE IF ParticipatesInRate(entries[n])
         THEN DoubleAdd(WeightedRateSumDouble(entries, n - 1),
                        DoubleMul(DoubleOfInt(entries[n].usd), entries[n].rate))
         ELSE WeightedRateSumDouble(entries, n - 1)

\* weighted_avg_rate of calculateFCDStats on rows whose rate carries satang.
WeightedAvgRateDouble(entries) ==
    LET totalUsdForRate == TotalUsdForRateDouble(entries, Len(entries))
        weightedRateSum == WeightedRateSumDouble(entries, Len(entries))
    IN  IF totalUsdForRate > 0 THEN DoubleDiv(weightedRateSum, DoubleOfInt(totalUsdForRate))
        ELSE DoubleZero

(***************************************************************************)
(* The entry form (pages/FCDDashboard).                                    *)
(***************************************************************************)
\* Number.parseFloat of a field's text when it is not a number.
NaN == -888888

\* Number.parseFloat(e.target.value) || 0
ParseFloatOrZero(x) == IF x = NaN \/ x = 0 THEN 0 ELSE x

\* What Number.parseFloat yields for the texts typed into a number field.
TypedNumbers == {NaN, 0, 1}

\* new Date(): the local wall clock.
Now == [valid |-> TRUE, year |-> 2026, month |-> 2, day |-> 3, hours |-> 15, minutes |-> 30]

\* format(new Date(), "yyyy-MM-dd'T'HH:mm")
NowLocal == FormatLocal(Now)

\* Values of the datetime-local input: a local date-time, or "" when cleared.
TypedDates == {NowLocal, ""}

\* Texts typed or pasted into the date input of the modal, a plain text
\* input: nothing, or a date with a line tabulation before it.
TypedDateTexts == {"", LineTabulation \o "5 March 2026"}

\* The options of the status select.
StatusOptions == {"IN", "OUT", "Interest"}

\* Minutes east of UTC of the browser's time zone: UTC, Bangkok (the +07:00
\* of the code's comments), New York.
TimeZones == {0, 420, -300}

\* new Date(s) of a datetime-local value is valid unless s does not parse.
IsValidDate(s) == s # ""

\* date-fns "XXX": the offset as +hh:mm or -hh:mm, and "Z" for offset zero.
TwoDigits(k) == IF k < 10 THEN "0" \o ToString(k) ELSE ToString(k)
FormatXXX(offset) ==
    IF offset = 0 THEN "Z"
    ELSE (IF offset > 0 THEN "+" ELSE "-")
         \o TwoDigits(Abs(offset) \div 60) \o ":" \o TwoDigits(Abs(offset) % 60)

\* format(new Date(local), "yyyy-MM-dd'T'HH:mm:ssXXX") for a valid local time.
FormatIsoWithOffset(local, offset) == local \o ":00" \o FormatXXX(offset)

\* The texts passed to alert().
AlertFx == "For FX, Rate and THB are required"
AlertThb(txType) == "For " \o txType \o ", THB must be empty (null)."
AlertRate(txType) == "For " \o txType \o ", Rate must be empty (null)."
AlertUsd == "Please enter USD amount"
AlertAddFailed == "Failed to add entry"
AlertOcrPrefix == "Error extracting text: "
AlertOcr(message) == AlertOcrPrefix \o message
IsOcrAlert(text) == StartsWith(text, AlertOcrPrefix)
NoAlert == ""

\* useState<NewFCDEntry>({...}): the draft a freshly mounted form holds.
InitialEntryData ==
    [tx_type |-> "FX", status |-> "IN", date |-> NowLocal,
     usd |-> 0, thb |-> Null, rate |-> Null]

\* The draft set after a successful save.
ResetEntryData ==
    [tx_type |-> "FX", status |-> "IN", date |-> NowLocal,
     usd |-> 0, thb |-> 0, rate |-> 0]

\* typeof x === 'number' ? x : 0
NumberOrZero(x) == IF x # Null THEN x ELSE 0

\* handleTxTypeChange: the draft after the type select changes to newType.
TxTypeChanged(draft, newType) ==
    CASE newType = "FX" ->
            [draft EXCEPT !.tx_type = newType, !.status = "IN",
                          !.thb = NumberOrZero(draft.thb),
                          !.rate = NumberOrZero(draft.rate)]
      [] newType = "GOLD_BUY" ->
            [draft EXCEPT !.tx_type = newType, !.status = "OUT",
                          !.thb = Null, !.rate = Null]
      [] newType = "GOLD_SELL" ->
            [draft EXCEPT !.tx_type = newType, !.status = "IN",
                          !.thb = Null, !.rate = Null]
      [] newType = "INTEREST" ->
            [draft EXCEPT !.tx_type = newType, !.status = "Interest",
                          !.thb = Null, !.rate = Null]
      [] newType = "TRANSFER" ->
            [draft EXCEPT !.tx_type = newType,
                          !.status = IF draft.status # "IN" /\ draft.status # "OUT"
                                     THEN "IN" ELSE draft.status,
                          !.thb = Null, !.rate = Null]

\* Mutant: the variant of pages/FCDDashboard.tsx with GOLD_BUY mapped to
\* IN as well.
TxTypeChangedAlwaysIn(draft, newType) ==
    CASE newType = "FX" ->
            [draft EXCEPT !.tx_type = newType, !.status = "IN",
                          !.thb = NumberOrZero(draft.thb),
                          !.rate = NumberOrZero(draft.rate)]
      [] newType \in {"GOLD_BUY", "GOLD_SELL", "INTEREST"} ->
            [draft EXCEPT !.tx_type = newType, !.status = "IN",
                          !.thb = Null, !.rate = Null]
      [] newType = "TRANSFER" ->
            [draft EXCEPT !.tx_type = newType,
                          !.status = IF draft.status # "IN" /\ draft.status # "OUT"
                                     THEN "IN" ELSE draft.status,
                          !.thb = Null, !.rate = Null]

\* handleTxTypeChange as pages/FCDDashboard.tsx has it.
TxTypeChangedDashboard(draft, newType) ==
    CASE newType = "FX" ->
            [draft EXCEPT !.tx_type = newType, !.status = "IN",
                          !.thb = NumberOrZero(draft.thb),
                          !.rate = NumberOrZero(draft.rate)]
      [] newType = "GOLD_BUY" ->
            [draft EXCEPT !.tx_type = newType, !.status = "OUT",
                          !.thb = Null, !.rate = Null]
      [] newType = "GOLD_SELL" ->
            [draft EXCEPT !.tx_type = newType, !.status = "IN",
                          !.thb = Null, !.rate = Null]
      [] newType = "INTEREST" ->
            [draft EXCEPT !.tx_type = newType, !.status = "IN",
                          !.thb = Null, !.rate = Null]
      [] newType = "TRANSFER" ->
            [draft EXCEPT !.tx_type = newType,
                          !.status = IF draft.status # "IN" /\ draft.status # "OUT"
                                     THEN "IN" ELSE draft.status,
                          !.thb = Null, !.rate = Null]

\* x ?? 0
OrElseZero(x) == IF x = Null THEN 0 ELSE x

\* Mutant: an FX draft is refused only when both rate and thb are missing.
FxIncompleteBothMissing(draft) ==
    OrElseZero(draft.rate) <= 0 /\ OrElseZero(draft.thb) <= 0
\* if ((entryData.rate ?? 0) <= 0 || (entryData.thb ?? 0) <= 0)
FxIncomplete(draft) == OrElseZero(draft.rate) <= 0 \/ OrElseZero(draft.thb) <= 0

\* Mutant: only a positive thb is refused on a non-FX draft.
ThbNotEmptyPositiveOnly(draft) == draft.thb # Null /\ draft.thb > 0
\* if (entryData.thb != null && entryData.thb !== 0)
ThbNotEmpty(draft) == draft.thb # Null /\ draft.thb # 0

\* if (entryData.rate != null && entryData.rate !== 0)
RateNotEmpty(draft) == draft.rate # Null /\ draft.rate # 0

\* Mutant: only a zero amount is refused.
UsdMissingZeroOnly(draft) == draft.usd = 0
\* if (entryData.usd <= 0)
UsdMissing(draft) == draft.usd <= 0

\* Mutant: the validation stops after the type rules.
ValidationAlertTypeRulesOnly(draft) ==
    IF draft.tx_type = "FX" /\ FxIncomplete(draft) THEN AlertFx
    ELSE IF draft.tx_type # "FX" /\ ThbNotEmpty(draft) THEN AlertThb(draft.tx_type)
    ELSE IF draft.tx_type # "FX" /\ RateNotEmpty(draft) THEN AlertRate(draft.tx_type)
    ELSE NoAlert

\* The validation of handleAddEntry, in the order of the code: the text of
\* the alert that rejects the draft, or NoAlert when the draft passes.
ValidationAlert(draft) ==
    IF draft.tx_type = "FX" /\ FxIncomplete(draft) THEN AlertFx
    ELSE IF draft.tx_type # "FX" /\ ThbNotEmpty(draft) THEN AlertThb(draft.tx_type)
    ELSE IF draft.tx_type # "FX" /\ RateNotEmpty(draft) THEN AlertRate(draft.tx_type)
    ELSE IF UsdMissing(draft) THEN AlertUsd
    ELSE NoAlert

\* Mutant: thb and rate go into the payload as the draft holds them.
BuildPayloadPassThrough(draft, offset) ==
    [draft EXCEPT !.date = FormatIsoWithOffset(draft.date, offset)]

\* const payload: NewFCDEntry = { ...entryData, date: isoWithOffset, thb: ..., rate: ... }
BuildPayload(draft, offset) ==
    [draft EXCEPT !.date = FormatIsoWithOffset(draft.date, offset),
                  !.thb = IF draft.tx_type = "FX" THEN draft.thb ELSE Null,
                  !.rate = IF draft.tx_type = "FX" THEN draft.rate ELSE Null]

(***************************************************************************)
(* The upload modal and OCR (extractText, fillFromModal).                  *)
(***************************************************************************)
\* image: string | null
NoImage == ""

\* The data URL FileReader yields for the chosen file.
Images == {"data:image/jpeg;base64,slip"}

\* import.meta.env.VITE_TYPHOON_API_KEY: the key the build was given, or
\* undefined in a build without one.
NoApiKey == ""
ApiKey == "typhoon-key"
ApiKeys == {NoApiKey, ApiKey}

\* At most MaxReads FileReader reads are in flight at once.
MaxReads == 2

\* No response is being read.
NoAnswer == <<>>

\* A regular expression for an amount did not match (the match is null);
\* a match captures at least one character.
NoCapture == ""

\* match[1].replace(/,/g, "")
RECURSIVE WithoutCommas(_)
WithoutCommas(s) ==
    IF s = "" THEN ""
    ELSE (IF Head(s) = "," THEN "" ELSE Head(s)) \o WithoutCommas(Tail(s))

RECURSIVE TenToThe(_)
TenToThe(k) == IF k = 0 THEN 1 ELSE 10 * TenToThe(k - 1)

\* Number.parseFloat on a text of digits and dots: the digits up to the
\* first dot and the digits after it, NaN when there is no digit at either
\* place.  A whole amount is an integer of the model; an amount with a
\* fraction is the binary64 number nearest to it.  (Texts of at most nine
\* digits.)
ParseFloat(s) ==
    LET whole == LeadingDigits(s, Len(s))
        afterWhole == Drop(s, whole)
        decimals == IF StartsWith(afterWhole, ".")
                    THEN LeadingDigits(Drop(afterWhole, 1), Len(afterWhole)) ELSE 0
        fraction == SubSeq(afterWhole, 2, decimals + 1)
    IN  IF whole = 0 /\ decimals = 0 THEN NaN
        ELSE IF DigitsValue(fraction) = 0 THEN DigitsValue(Take(s, whole))
        ELSE DoubleDiv(DoubleOfInt(DigitsValue(Take(s, whole) \o fraction)),
                       DoubleOfInt(TenToThe(decimals)))

\* m ? Number.parseFloat(m[1].replace(/,/g, "")) : null
CapturedAmount(text) ==
    IF text = NoCapture THEN Null ELSE ParseFloat(WithoutCommas(text))

\* ExtractedFields.Date: string | null.  Every use of it tests !dateStr,
\* which null and "" both satisfy.
NoDate == ""

\* What the regular expressions of extractText capture in the content of a
\* page: nothing; the date alone; USD alone; every field; a rate whose text
\* is a lone comma, beside a date without a time of day.
NoMatch == [THB |-> NoCapture, USD |-> NoCapture, Rate |-> NoCapture, Date |-> NoDate]
PageMatches ==
    { NoMatch,
      [THB |-> NoCapture, USD |-> NoCapture, Rate |-> NoCapture,
       Date |-> "3 February 2026 - 3:30 PM"],
      [THB |-> NoCapture, USD |-> "100", Rate |-> NoCapture, Date |-> NoDate],
      [THB |-> "3,500.00", USD |-> "100", Rate |-> "35",
       Date |-> "3 February 2026 - 3:30 PM"],
      [THB |-> NoCapture, USD |-> NoCapture, Rate |-> ",", Date |-> "5 March 2026"] }

\* if (thbMatch || usdMatch || rateMatch)
IsUsable(matches) ==
    matches.THB # NoCapture \/ matches.USD # NoCapture \/ matches.Rate # NoCapture

\* fields = { THB: ..., USD: ..., Rate: ..., Date: dateMatch ? dateMatch[1] : null }
FieldsOf(matches) ==
    [THB |-> CapturedAmount(matches.THB), USD |-> CapturedAmount(matches.USD),
     Rate |-> CapturedAmount(matches.Rate), Date |-> matches.Date]

\* pageResult.error of a page that reports failure: absent, or a text.
PageErrors == {"", "bad page"}

\* The entries of typhoonResult.results: the success flag, the error text,
\* whether the page has a message, and what its content matches.
PageResults ==
    { [success |-> TRUE, error |-> "", message |-> FALSE, matches |-> NoMatch] }
    \cup [success : {TRUE}, error : {""}, message : {TRUE}, matches : PageMatches]
    \cup { [success |-> FALSE, error |-> e, message |-> FALSE, matches |-> NoMatch] :
              e \in PageErrors }
    \cup [success : {FALSE}, error : PageErrors, message : {TRUE}, matches : PageMatches]

\* The most pages an answer holds.
MaxPages == 2

RECURSIVE SeqsUpTo(_, _)
\* The sequences over S of length at most n.
SeqsUpTo(S, n) ==
    IF n = 0 THEN {<<>>}
    ELSE LET shorter == SeqsUpTo(S, n - 1)
         IN  shorter \cup {Append(s, x) : s \in shorter, x \in S}

\* A response that is ok, with typhoonResult.results || [] of its body.
OkResponse(results) == [ok |-> TRUE, errorText |-> "", results |-> results]

\* A response that is not ok, with the text of its body.
NotOkResponses == { [ok |-> FALSE, errorText |-> "Unauthorized", results |-> <<>>] }

\* The responses of the OCR service.
OcrAnswers == {OkResponse(results) : results \in SeqsUpTo(PageResults, MaxPages)}
OcrResponses == OcrAnswers \cup NotOkResponses

\* The responses the dashboard of Spec meets: a slip with every field, and
\* a slip on which USD alone is found.
SlipMatches ==
    { [THB |-> "1", USD |-> "1", Rate |-> "1", Date |-> "3 February 2026 - 3:30 PM"],
      [THB |-> NoCapture, USD |-> "1", Rate |-> NoCapture, Date |-> NoDate] }
SlipResponses ==
    { OkResponse(<<[success |-> TRUE, error |-> "", message |-> TRUE, matches |-> m]>>) :
        m \in SlipMatches }

\* The messages of the errors extractText throws or meets.
FetchFailedMessages == {"fetch failed", "Failed to fetch"}
NoApiKeyMessage == "Typhoon API key not found in environment variables"
ResponseNotOkMessage(errorText) == "Typhoon OCR failed: " \o errorText
PageFailedMessage(error) ==
    "OCR processing failed: " \o (IF error = "" THEN "Unknown error" ELSE error)
NoFieldsMessage == "Could not extract structured data from OCR result"

\* The outcome of the loop over the pages: the fields it set, or the
\* message of the error it threw.
NoFieldsYet == [thrown |-> FALSE, message |-> "", fields |-> NullObject]
PageFailure(error) ==
    [thrown |-> TRUE, message |-> PageFailedMessage(error), fields |-> NullObject]

RECURSIVE ReadPagesSkippingFailures(_, _)
\* Mutant: a page that reports failure is passed over.
ReadPagesSkippingFailures(results, i) ==
    IF i > Len(results) THEN NoFieldsYet
    ELSE IF results[i].success /\ results[i].message /\ IsUsable(results[i].matches)
         THEN [thrown |-> FALSE, message |-> "", fields |-> FieldsOf(results[i].matches)]
         ELSE ReadPagesSkippingFailures(results, i + 1)

RECURSIVE ReadPages(_, _)
\* for (const pageResult of typhoonResult.results || []) { ... }, from the
\* i-th page on.
ReadPages(results, i) ==
    IF i > Len(results) THEN NoFieldsYet
    ELSE LET pageResult == results[i]
         IN  IF pageResult.success /\ pageResult.message
             THEN IF IsUsable(pageResult.matches)
                  THEN [thrown |-> FALSE, message |-> "",
                        fields |-> FieldsOf(pageResult.matches)]
                  ELSE ReadPages(results, i + 1)
             ELSE IF ~pageResult.success THEN PageFailure(pageResult.error)
             ELSE ReadPages(results, i + 1)

\* The fields extractText passes to setModalFields, or null when it throws:
\* in the loop, or at if (!fields) after it.
ExtractedFrom(answer) == ReadPages(answer.results, 1).fields

\* The message of the error extractText throws while it reads the body of
\* an ok response that yields no fields.
ExtractionError(answer) ==
    LET outcome == ReadPages(answer.results, 1)
    IN  IF outcome.thrown THEN outcome.message ELSE NoFieldsMessage

\* parseExtractedDate: the text with its time of day, else the date of the
\* text before its first "-" at the current time of day, else (format
\* throws on an Invalid Date and the catch block answers) the wall clock.
parseExtractedDate(dateStr) ==
    IF dateStr = NoDate THEN NowLocal
    ELSE LET cleanDate == Trim(WithoutSubmissionDate(dateStr))
             parsedWithTime == ParseDateWithTime(cleanDate)
             cleanDateOnly == Trim(BeforeFirstDash(dateStr))
             parsedDate == ParseDateOnly(cleanDateOnly)
         IN  IF parsedWithTime.valid THEN FormatLocal(parsedWithTime)
             ELSE IF parsedDate.valid
                  THEN FormatLocal([parsedDate EXCEPT !.hours = Now.hours,
                                                      !.minutes = Now.minutes])
             ELSE NowLocal

\* x || 0 on number | null: null, 0 and NaN are falsy.
OrZeroNullable(x) == IF x = Null \/ x = 0 \/ x = NaN THEN 0 ELSE x

\* Mutant: a field the extraction did not find stays empty in the draft.
FilledEntryDataKeepingNulls(fields) ==
    [tx_type |-> "FX", status |-> "IN", date |-> parseExtractedDate(fields.Date),
     usd |-> fields.USD, thb |-> fields.THB, rate |-> fields.Rate]

\* The draft fillFromModal sets from the modal's fields.
FilledEntryData(fields) ==
    [tx_type |-> "FX", status |-> "IN", date |-> parseExtractedDate(fields.Date),
     usd |-> OrZeroNullable(fields.USD), thb |-> OrZeroNullable(fields.THB),
     rate |-> OrZeroNullable(fields.Rate)]

(***************************************************************************)
(* State.                                                                  *)
(***************************************************************************)
VARIABLES
    entryData,   \* the draft of the entry form
    entries,     \* the rows the dashboard holds
    stats,       \* FCDStats | null
    loading,     \* true until the first fetchData ends
    showAddEntry, \* the entry form is unfolded
    alertMsg,    \* the text of the alert() dialog on screen, or NoAlert
    tzOffset,    \* the browser's time zone
    typhoonApiKey, \* import.meta.env.VITE_TYPHOON_API_KEY of the build
    reading,     \* FileReader reads of a chosen file in flight
    db,          \* storage: the rows of the table, in insertion order
    pendingAdds, \* addFCDEntry calls in flight: their payloads
    fetches,     \* fetchData calls in flight
    nAddCalls,   \* how many times addFCDEntry has been called
    showUploadModal, \* the upload modal is shown
    image,       \* the slip image as a data URL, or NoImage
    modalFields, \* ExtractedFields | null
    ocrLoading,  \* an extractText call is in flight
    ocrProgress, \* the progress shown on the Extract button
    ocrAnswer,   \* the OCR response the running extractText call holds, or NoAnswer
    list,        \* StatsSpec: the entry list a caller holds
    result,      \* StatsSpec: what calculateFCDStats returned for it
    accumulators, \* CallerSpec: the bindings totalUsdForRate and weightedRateSum
    calls        \* CallerSpec: the calls of calculateFCDStats made so far

formVars == <<entryData, alertMsg>>
viewVars == <<entries, stats, loading, showAddEntry>>
storeVars == <<db, pendingAdds, fetches, nAddCalls>>
ocrVars == <<showUploadModal, image, modalFields, ocrLoading, ocrProgress, ocrAnswer>>
statsVars == <<list, result, accumulators, calls>>
vars == <<entryData, entries, stats, loading, showAddEntry, alertMsg, tzOffset,
          typhoonApiKey, reading,
          db, pendingAdds, fetches, nAddCalls,
          showUploadModal, image, modalFields, ocrLoading, ocrProgress, ocrAnswer,
          list, result, accumulators, calls>>

\* A fetchData call that has just been issued: storage has not answered yet.
IssuedFetch == [read |-> FALSE, rows |-> <<>>]

\* s without its i-th element.
RemoveAt(s, i) == SubSeq(s, 1, i - 1) \o SubSeq(s, i + 1, Len(s))

(***************************************************************************)
(* Init: the dashboard has mounted; its effect has called fetchData.       *)
(***************************************************************************)
Init ==
    /\ entryData = InitialEntryData
    /\ entries = <<>>
    /\ stats = NullObject
    /\ loading = TRUE
    /\ showAddEntry = FALSE
    /\ alertMsg = NoAlert
    /\ tzOffset = 420
    /\ typhoonApiKey \in ApiKeys
    /\ reading = 0
    /\ db = <<>>
    /\ pendingAdds = <<>>
    /\ fetches = <<IssuedFetch>>
    /\ nAddCalls = 0
    /\ showUploadModal = FALSE
    /\ image = NoImage
    /\ modalFields = NullObject
    /\ ocrLoading = FALSE
    /\ ocrProgress = 0
    /\ ocrAnswer = NoAnswer
    /\ list = <<>>
    /\ result = calculateFCDStats(<<>>)
    /\ accumulators = NoAccumulators
    /\ calls = <<>>

\* The page is rendered once loading is false; an alert() dialog blocks the
\* page's script until it is dismissed.
CanInteract == ~loading /\ alertMsg = NoAlert

\* {showAddEntry && ( ... the inputs and the Save button ... )}
CanUseForm == CanInteract /\ showAddEntry

\* {showUploadModal && ( ... the modal ... )}
CanUseModal == CanInteract /\ showUploadModal

\* onClick={() => setShowAddEntry(!showAddEntry)}
ToggleAddEntry ==
    /\ CanInteract
    /\ showAddEntry' = ~showAddEntry
    /\ UNCHANGED <<formVars, entries, stats, loading, storeVars, statsVars, ocrVars, tzOffset, typhoonApiKey, reading>>

\* "Add your first entry", rendered while the dashboard holds no row:
\* onClick={() => setShowAddEntry(true)}
AddFirstEntry ==
    /\ CanInteract
    /\ entries = <<>>
    /\ showAddEntry' = TRUE
    /\ UNCHANGED <<formVars, entries, stats, loading, storeVars, statsVars, ocrVars, tzOffset, typhoonApiKey, reading>>

(***************************************************************************)
(* Field edits.                                                            *)
(***************************************************************************)
EditDate ==
    /\ CanUseForm
    /\ \E d \in TypedDates : entryData' = [entryData EXCEPT !.date = d]
    /\ UNCHANGED <<alertMsg, viewVars, storeVars, statsVars, ocrVars, tzOffset, typhoonApiKey, reading>>

EditUsd ==
    /\ CanUseForm
    /\ \E v \in TypedNumbers : entryData' = [entryData EXCEPT !.usd = ParseFloatOrZero(v)]
    /\ UNCHANGED <<alertMsg, viewVars, storeVars, statsVars, ocrVars, tzOffset, typhoonApiKey, reading>>

\* Mutant: the status select is enabled for every tx_type.
EditStatusOfAnyType ==
    /\ CanUseForm
    /\ \E s \in StatusOptions : entryData' = [entryData EXCEPT !.status = s]
    /\ UNCHANGED <<alertMsg, viewVars, storeVars, statsVars, ocrVars, tzOffset, typhoonApiKey, reading>>

\* The status select is disabled unless tx_type is TRANSFER.
EditStatus ==
    /\ CanUseForm
    /\ entryData.tx_type = "TRANSFER"
    /\ \E s \in StatusOptions : entryData' = [entryData EXCEPT !.status = s]
    /\ UNCHANGED <<alertMsg, viewVars, storeVars, statsVars, ocrVars, tzOffset, typhoonApiKey, reading>>

\* The THB and rate inputs are rendered only when tx_type is FX.
EditThb ==
    /\ CanUseForm
    /\ entryData.tx_type = "FX"
    /\ \E v \in TypedNumbers : entryData' = [entryData EXCEPT !.thb = ParseFloatOrZero(v)]
    /\ UNCHANGED <<alertMsg, viewVars, storeVars, statsVars, ocrVars, tzOffset, typhoonApiKey, reading>>

EditRate ==
    /\ CanUseForm
    /\ entryData.tx_type = "FX"
    /\ \E v \in TypedNumbers : entryData' = [entryData EXCEPT !.rate = ParseFloatOrZero(v)]
    /\ UNCHANGED <<alertMsg, viewVars, storeVars, statsVars, ocrVars, tzOffset, typhoonApiKey, reading>>

handleTxTypeChange ==
    /\ CanUseForm
    /\ \E newType \in FCDTxType : entryData' = TxTypeChanged(entryData, newType)
    /\ UNCHANGED <<alertMsg, viewVars, storeVars, statsVars, ocrVars, tzOffset, typhoonApiKey, reading>>

\* The user closes the dialog and alert() returns.  The alert of
\* extractText is raised in its catch block: the finally block,
\* setOcrLoading(false) and setOcrProgress(0), runs when the dialog closes.
DismissAlert ==
    /\ alertMsg # NoAlert
    /\ alertMsg' = NoAlert
    /\ IF IsOcrAlert(alertMsg)
       THEN ocrLoading' = FALSE /\ ocrProgress' = 0 /\ ocrAnswer' = NoAnswer
       ELSE UNCHANGED <<ocrLoading, ocrProgress, ocrAnswer>>
    /\ UNCHANGED <<entryData, viewVars, storeVars, statsVars, tzOffset, typhoonApiKey, reading,
                   showUploadModal, image, modalFields>>

(***************************************************************************)
(* Storage (api/fcd: fetchFCDEntries, addFCDEntry).                        *)
(***************************************************************************)
\* addFCDEntry(payload) on success: the table gains the payload as a row
\* with the next id.
Inserted(table, payload) ==
    Append(table,
           [id |-> Len(table) + 1, tx_type |-> payload.tx_type,
            status |-> payload.status, date |-> payload.date, usd |-> payload.usd,
            thb |-> payload.thb, rate |-> payload.rate])

\* fetchFCDEntries(): every row of the table.
FetchedRows(table) == table

(***************************************************************************)
(* handleAddEntry.                                                         *)
(***************************************************************************)
\* Mutant: the rejected draft is cleared.
handleAddEntryRejectsAndResets ==
    /\ CanUseForm
    /\ ValidationAlert(entryData) # NoAlert
    /\ alertMsg' = ValidationAlert(entryData)
    /\ entryData' = ResetEntryData
    /\ UNCHANGED <<viewVars, storeVars, statsVars, ocrVars, tzOffset, typhoonApiKey, reading>>

\* Validation fails: alert(...) and return.
handleAddEntryRejects ==
    /\ CanUseForm
    /\ ValidationAlert(entryData) # NoAlert
    /\ alertMsg' = ValidationAlert(entryData)
    /\ UNCHANGED <<entryData, viewVars, storeVars, statsVars, ocrVars, tzOffset, typhoonApiKey, reading>>

\* Validation passes but the date does not parse: format() throws a
\* RangeError outside the try block, the handler's promise rejects and
\* nothing else happens.
handleAddEntryThrows ==
    /\ CanUseForm
    /\ ValidationAlert(entryData) = NoAlert
    /\ ~IsValidDate(entryData.date)
    /\ UNCHANGED vars

\* Validation passes: the payload is built and addFCDEntry(payload) is called.
SubmitsPayload ==
    /\ CanUseForm
    /\ ValidationAlert(entryData) = NoAlert
    /\ IsValidDate(entryData.date)
    /\ pendingAdds' = Append(pendingAdds, BuildPayload(entryData, tzOffset))
    /\ nAddCalls' = nAddCalls + 1
    /\ UNCHANGED <<formVars, viewVars, db, fetches, statsVars, ocrVars, tzOffset, typhoonApiKey, reading>>

\* The saves that pass validation, MaxSaves of them at most.
handleAddEntrySubmits == nAddCalls < MaxSaves /\ SubmitsPayload

handleAddEntry == handleAddEntryRejects \/ handleAddEntryThrows \/ handleAddEntrySubmits

\* await addFCDEntry(payload) returns: the draft is reset and fetchData() is
\* called (not awaited).
addFCDEntryResolves ==
    /\ alertMsg = NoAlert
    /\ \E i \in 1..Len(pendingAdds) :
        /\ db' = Inserted(db, pendingAdds[i])
        /\ pendingAdds' = RemoveAt(pendingAdds, i)
    /\ entryData' = ResetEntryData
    /\ fetches' = Append(fetches, IssuedFetch)
    /\ UNCHANGED <<alertMsg, viewVars, nAddCalls, statsVars, ocrVars, tzOffset, typhoonApiKey, reading>>

\* Mutant: a failed addFCDEntry call is made again with the same payload.
addFCDEntryRejectsAndRetries ==
    /\ alertMsg = NoAlert
    /\ pendingAdds # <<>>
    /\ nAddCalls' = nAddCalls + 1
    /\ UNCHANGED <<formVars, viewVars, db, pendingAdds, fetches, statsVars, ocrVars, tzOffset, typhoonApiKey, reading>>

\* await addFCDEntry(payload) throws: console.error and alert.
addFCDEntryRejects ==
    /\ alertMsg = NoAlert
    /\ \E i \in 1..Len(pendingAdds) : pendingAdds' = RemoveAt(pendingAdds, i)
    /\ alertMsg' = AlertAddFailed
    /\ UNCHANGED <<entryData, viewVars, db, fetches, nAddCalls, statsVars, ocrVars, tzOffset, typhoonApiKey, reading>>

(***************************************************************************)
(* fetchData.                                                              *)
(***************************************************************************)
\* Storage answers a fetchFCDEntries call with the rows it holds now.
fetchFCDEntriesReads ==
    /\ \E i \in 1..Len(fetches) :
        /\ ~fetches[i].read
        /\ fetches' = [fetches EXCEPT ![i] = [read |-> TRUE, rows |-> FetchedRows(db)]]
    /\ UNCHANGED <<formVars, viewVars, db, pendingAdds, nAddCalls, statsVars, ocrVars, tzOffset, typhoonApiKey, reading>>

\* await fetchFCDEntries() returns: setEntries, setStats, and finally
\* setLoading(false).
fetchDataResolves ==
    /\ alertMsg = NoAlert
    /\ \E i \in 1..Len(fetches) :
        /\ fetches[i].read
        /\ entries' = fetches[i].rows
        /\ stats' = calculateFCDStats(fetches[i].rows)
        /\ fetches' = RemoveAt(fetches, i)
    /\ loading' = FALSE
    /\ UNCHANGED <<formVars, showAddEntry, db, pendingAdds, nAddCalls, statsVars, ocrVars, tzOffset, typhoonApiKey, reading>>

\* Mutant: a failed fetch clears what the dashboard holds.
fetchDataRejectsAndClears ==
    /\ alertMsg = NoAlert
    /\ \E i \in 1..Len(fetches) :
        /\ ~fetches[i].read
        /\ fetches' = RemoveAt(fetches, i)
    /\ entries' = <<>>
    /\ stats' = NullObject
    /\ loading' = FALSE
    /\ UNCHANGED <<formVars, showAddEntry, db, pendingAdds, nAddCalls, statsVars, ocrVars, tzOffset, typhoonApiKey, reading>>

\* await fetchFCDEntries() throws: console.error, and finally
\* setLoading(false).
fetchDataRejects ==
    /\ alertMsg = NoAlert
    /\ \E i \in 1..Len(fetches) :
        /\ ~fetches[i].read
        /\ fetches' = RemoveAt(fetches, i)
    /\ loading' = FALSE
    /\ UNCHANGED <<formVars, entries, stats, showAddEntry, db, pendingAdds, nAddCalls, statsVars,
                   ocrVars, tzOffset, typhoonApiKey, reading>>

(***************************************************************************)
(* The upload modal.                                                       *)
(***************************************************************************)
\* "Upload slip" in the header: onClick={() => setShowUploadModal(true)}
OpenUploadModal ==
    /\ CanInteract
    /\ showUploadModal' = TRUE
    /\ UNCHANGED <<formVars, viewVars, storeVars, statsVars, tzOffset, typhoonApiKey, reading,
                   image, modalFields, ocrLoading, ocrProgress, ocrAnswer>>

\* handleImageUpload: with a file chosen in the modal, a FileReader starts
\* reading it (reader.readAsDataURL(file)); no state is set yet.
handleImageUpload ==
    /\ CanUseModal
    /\ reading < MaxReads
    /\ reading' = reading + 1
    /\ UNCHANGED <<formVars, viewVars, storeVars, statsVars, tzOffset, typhoonApiKey,
                   ocrVars>>

\* reader.onload: setImage(event.target?.result), setModalFields(null).  It
\* tests nothing: the modal may have been closed since the file was chosen.
readerOnload ==
    /\ alertMsg = NoAlert
    /\ reading > 0
    /\ reading' = reading - 1
    /\ \E img \in Images : image' = img
    /\ modalFields' = NullObject
    /\ UNCHANGED <<formVars, viewVars, storeVars, statsVars, tzOffset, typhoonApiKey,
                   showUploadModal, ocrLoading, ocrProgress, ocrAnswer>>

\* The inputs of the modal, rendered once modalFields is set:
\* setModalFields({ ...modalFields, USD: Number.parseFloat(e.target.value) || 0 })
\* and the like for THB and Rate.
EditModalAmount ==
    /\ CanUseModal
    /\ modalFields # NullObject
    /\ \E field \in {"USD", "THB", "Rate"}, v \in TypedNumbers :
          modalFields' = [modalFields EXCEPT ![field] = ParseFloatOrZero(v)]
    /\ UNCHANGED <<formVars, viewVars, storeVars, statsVars, tzOffset, typhoonApiKey, reading,
                   showUploadModal, image, ocrLoading, ocrProgress, ocrAnswer>>

\* setModalFields({ ...modalFields, Date: e.target.value })
EditModalDate ==
    /\ CanUseModal
    /\ modalFields # NullObject
    /\ \E text \in TypedDateTexts : modalFields' = [modalFields EXCEPT !.Date = text]
    /\ UNCHANGED <<formVars, viewVars, storeVars, statsVars, tzOffset, typhoonApiKey, reading,
                   showUploadModal, image, ocrLoading, ocrProgress, ocrAnswer>>

\* extractText up to its first await: the Extract button is disabled while
\* ocrLoading; without an image the call returns at once.  setOcrLoading(true),
\* setOcrProgress(0); without a key in the build it throws, the catch block
\* alerts and the finally block waits for the dialog; with one,
\* setOcrProgress(20), and the blob of the image is awaited.
extractTextStarts ==
    /\ CanUseModal
    /\ ~ocrLoading
    /\ image # NoImage
    /\ ocrLoading' = TRUE
    /\ ocrAnswer' = NoAnswer
    /\ IF typhoonApiKey = NoApiKey
       THEN /\ ocrProgress' = 0
            /\ alertMsg' = AlertOcr(NoApiKeyMessage)
       ELSE /\ ocrProgress' = 20
            /\ UNCHANGED alertMsg
    /\ UNCHANGED <<entryData, viewVars, storeVars, statsVars, tzOffset, typhoonApiKey, reading,
                   showUploadModal, image, modalFields>>

\* await fetch(image).then((r) => r.blob()) returns: the form data is
\* built, setOcrProgress(40), and the OCR request is awaited.
imageBlobRead ==
    /\ alertMsg = NoAlert
    /\ ocrLoading
    /\ ocrProgress = 20
    /\ ocrProgress' = 40
    /\ UNCHANGED <<formVars, viewVars, storeVars, statsVars, tzOffset, typhoonApiKey, reading,
                   showUploadModal, image, modalFields, ocrLoading, ocrAnswer>>

\* await fetch(".../v1/ocr") returns a response: setOcrProgress(60), and
\* its body is awaited (text() when the response is not ok, else json()).
typhoonRespondsWith(responses) ==
    /\ alertMsg = NoAlert
    /\ ocrLoading
    /\ ocrProgress = 40
    /\ \E response \in responses : ocrAnswer' = response
    /\ ocrProgress' = 60
    /\ UNCHANGED <<formVars, viewVars, storeVars, statsVars, tzOffset, typhoonApiKey, reading,
                   showUploadModal, image, modalFields, ocrLoading>>

\* await fetch(".../v1/ocr") throws: the catch block alerts; the finally
\* block waits for the dialog.
typhoonRequestFails ==
    /\ alertMsg = NoAlert
    /\ ocrLoading
    /\ ocrProgress = 40
    /\ \E message \in FetchFailedMessages : alertMsg' = AlertOcr(message)
    /\ UNCHANGED <<entryData, viewVars, storeVars, statsVars, tzOffset, typhoonApiKey, reading,
                   showUploadModal, image, modalFields, ocrLoading, ocrProgress, ocrAnswer>>

\* The body has been read.  A response that is not ok throws with the text
\* of its body.  Else setOcrProgress(80) and the loop over the pages: with
\* fields, setModalFields(fields), setOcrProgress(100) and the finally
\* block; without, the loop or the test after it throws.  Every throw
\* ends in the alert of the catch block, and the finally block waits for
\* the dialog.
extractTextReads ==
    /\ alertMsg = NoAlert
    /\ ocrLoading
    /\ ocrProgress = 60
    /\ IF ~ocrAnswer.ok
       THEN /\ alertMsg' = AlertOcr(ResponseNotOkMessage(ocrAnswer.errorText))
            /\ UNCHANGED <<modalFields, ocrLoading, ocrProgress, ocrAnswer>>
       ELSE IF ExtractedFrom(ocrAnswer) = NullObject
       THEN /\ alertMsg' = AlertOcr(ExtractionError(ocrAnswer))
            /\ ocrProgress' = 80
            /\ UNCHANGED <<modalFields, ocrLoading, ocrAnswer>>
       ELSE /\ modalFields' = ExtractedFrom(ocrAnswer)
            /\ ocrLoading' = FALSE
            /\ ocrProgress' = 0
            /\ ocrAnswer' = NoAnswer
            /\ UNCHANGED alertMsg
    /\ UNCHANGED <<entryData, viewVars, storeVars, statsVars, tzOffset, typhoonApiKey, reading,
                   showUploadModal, image>>

resetOCR ==
    /\ CanUseModal
    /\ image' = NoImage
    /\ modalFields' = NullObject
    /\ showUploadModal' = FALSE
    /\ UNCHANGED <<formVars, viewVars, storeVars, statsVars, tzOffset, typhoonApiKey, reading,
                   ocrLoading, ocrProgress, ocrAnswer>>

\* The Fill button is rendered only when modalFields is not null.
fillFromModal ==
    /\ CanUseModal
    /\ modalFields # NullObject
    /\ entryData' = FilledEntryData(modalFields)
    /\ showUploadModal' = FALSE
    /\ UNCHANGED <<alertMsg, viewVars, storeVars, statsVars, tzOffset, typhoonApiKey, reading,
                   image, modalFields, ocrLoading, ocrProgress, ocrAnswer>>

\* The OCR service as the dashboard of Spec meets it.
typhoonRespondsToSlip == typhoonRespondsWith(SlipResponses)

Next ==
    \/ EditDate \/ EditUsd \/ EditStatus \/ EditThb \/ EditRate
    \/ handleTxTypeChange
    \/ handleAddEntry
    \/ DismissAlert
    \/ addFCDEntryResolves \/ addFCDEntryRejects
    \/ fetchFCDEntriesReads \/ fetchDataResolves \/ fetchDataRejects
    \/ ToggleAddEntry \/ AddFirstEntry
    \/ OpenUploadModal \/ handleImageUpload \/ readerOnload \/ resetOCR \/ fillFromModal
    \/ extractTextStarts \/ imageBlobRead \/ typhoonRespondsToSlip \/ typhoonRequestFails
    \/ extractTextReads

Spec == Init /\ [][Next]_vars

(***************************************************************************)
(* FormSpec: the dashboard with the upload modal left closed: the entry    *)
(* form, the saves and the refreshes of Spec.  It is the specification of  *)
(* what a save leaves on the page (entries, stats, the alert); the modal's *)
(* handlers write none of these.                                           *)
(***************************************************************************)
FormNext ==
    \/ ToggleAddEntry \/ AddFirstEntry
    \/ EditDate \/ EditUsd \/ EditStatus \/ EditThb \/ EditRate
    \/ handleTxTypeChange
    \/ handleAddEntry
    \/ DismissAlert
    \/ addFCDEntryResolves \/ addFCDEntryRejects
    \/ fetchFCDEntriesReads \/ fetchDataResolves \/ fetchDataRejects

\* The key of the build is read by extractText only.
FormInit == Init /\ typhoonApiKey = ApiKey

FormSpec == FormInit /\ [][FormNext]_vars

(***************************************************************************)
(* DraftSpec: every writer of the draft and of what is submitted.  The     *)
(* page has loaded an empty table, the form is unfolded and the upload     *)
(* modal is open on an extraction of a slip; the user edits the amounts of *)
(* the modal, fills the form from it, closes and reopens the modal, edits  *)
(* the form, changes the type and the status, and saves; a save resolves   *)
(* (which resets the draft) or fails.                                      *)
(*                                                                         *)
(* Left out are the handlers that write neither entryData nor a payload:   *)
(* the date input of the modal (its text reaches the draft as a date       *)
(* only), the file reader and extractText (they set image, modalFields and *)
(* the OCR progress; the extractions they yield are the initial states),   *)
(* the toggle of the form and fetchData (entries, stats, loading).         *)
(***************************************************************************)
\* What extractText sets modalFields to on the slips of SlipResponses.
DraftFields == {ExtractedFrom(answer) : answer \in SlipResponses}

DraftInit ==
    /\ entryData = InitialEntryData
    /\ entries = <<>>
    /\ stats = calculateFCDStats(<<>>)
    /\ loading = FALSE
    /\ showAddEntry = TRUE
    /\ alertMsg = NoAlert
    /\ tzOffset = 420
    /\ typhoonApiKey = ApiKey
    /\ reading = 0
    /\ db = <<>>
    /\ pendingAdds = <<>>
    /\ fetches = <<>>
    /\ nAddCalls = 0
    /\ showUploadModal = TRUE
    /\ image \in Images
    /\ modalFields \in DraftFields
    /\ ocrLoading = FALSE
    /\ ocrProgress = 0
    /\ ocrAnswer = NoAnswer
    /\ list = <<>>
    /\ result = calculateFCDStats(<<>>)
    /\ accumulators = NoAccumulators
    /\ calls = <<>>

DraftNext ==
    \/ EditDate \/ EditUsd \/ EditStatus \/ EditThb \/ EditRate
    \/ handleTxTypeChange
    \/ fillFromModal
    \/ EditModalAmount
    \/ OpenUploadModal \/ resetOCR
    \/ handleAddEntry
    \/ DismissAlert
    \/ addFCDEntryResolves \/ addFCDEntryRejects

DraftSpec == DraftInit /\ [][DraftNext]_vars

(***************************************************************************)
(* ValidatorSpec: handleAddEntry applied to every draft a NewFCDEntry can  *)
(* hold, in every time zone of TimeZones.  The page has loaded an empty    *)
(* table; the form is not edited, so every draft meets the validation as   *)
(* it is.                                                                  *)
(***************************************************************************)
DraftUsd == {-1, 0, 100}
DraftThb == {Null, -1, 0, 3500}
DraftRate == {Null, -1, 0, 35}

Drafts ==
    [tx_type : FCDTxType, status : StatusOptions, date : TypedDates,
     usd : DraftUsd, thb : DraftThb, rate : DraftRate]

ValidatorInit ==
    /\ entryData \in Drafts
    /\ entries = <<>>
    /\ stats = calculateFCDStats(<<>>)
    /\ loading = FALSE
    /\ showAddEntry = TRUE
    /\ alertMsg = NoAlert
    /\ tzOffset \in TimeZones
    /\ typhoonApiKey = ApiKey
    /\ reading = 0
    /\ db = <<>>
    /\ pendingAdds = <<>>
    /\ fetches = <<>>
    /\ nAddCalls = 0
    /\ showUploadModal = FALSE
    /\ image = NoImage
    /\ modalFields = NullObject
    /\ ocrLoading = FALSE
    /\ ocrProgress = 0
    /\ ocrAnswer = NoAnswer
    /\ list = <<>>
    /\ result = calculateFCDStats(<<>>)
    /\ accumulators = NoAccumulators
    /\ calls = <<>>

ValidatorNext ==
    \/ handleAddEntry
    \/ DismissAlert
    \/ addFCDEntryResolves \/ addFCDEntryRejects
    \/ fetchFCDEntriesReads \/ fetchDataResolves \/ fetchDataRejects

ValidatorSpec == ValidatorInit /\ [][ValidatorNext]_vars

(***************************************************************************)
(* StatsSpec: calculateFCDStats applied to every entry list of at most     *)
(* MaxEntries rows.                                                        *)
(***************************************************************************)
StatsInit ==
    /\ entryData = InitialEntryData
    /\ entries = <<>>
    /\ stats = NullObject
    /\ loading = TRUE
    /\ showAddEntry = FALSE
    /\ alertMsg = NoAlert
    /\ tzOffset = 0
    /\ typhoonApiKey = ApiKey
    /\ reading = 0
    /\ db = <<>>
    /\ pendingAdds = <<>>
    /\ fetches = <<>>
    /\ nAddCalls = 0
    /\ showUploadModal = FALSE
    /\ image = NoImage
    /\ modalFields = NullObject
    /\ ocrLoading = FALSE
    /\ ocrProgress = 0
    /\ ocrAnswer = NoAnswer
    /\ list = <<>>
    /\ result = calculateFCDStats(<<>>)
    /\ accumulators = NoAccumulators
    /\ calls = <<>>

\* Mutant: the call fails, returning no record, on a list with an FX row
\* that lacks its rate or its thb.
AppendEntryFailingOnIncompleteFx ==
    /\ Len(list) < MaxEntries
    /\ \E e \in StatsEntry : list' = Append(list, e)
    /\ result' =
          IF \E i \in DOMAIN list' :
                /\ list'[i].tx_type = "FX"
                /\ (list'[i].rate = Null \/ list'[i].thb = Null)
          THEN NullObject
          ELSE calculateFCDStats(list')
    /\ UNCHANGED <<formVars, viewVars, storeVars, ocrVars, tzOffset, typhoonApiKey, reading, accumulators, calls>>

\* The list grows by one row and its statistics are computed anew.
AppendEntry ==
    /\ Len(list) < MaxEntries
    /\ \E e \in StatsEntry : list' = Append(list, e)
    /\ result' = calculateFCDStats(list')
    /\ UNCHANGED <<formVars, viewVars, storeVars, ocrVars, tzOffset, typhoonApiKey, reading, accumulators, calls>>

StatsNext == AppendEntry

StatsSpec == StatsInit /\ [][StatsNext]_vars

(***************************************************************************)
(* DecimalSpec: total_in and total_out of calculateFCDStats on every list  *)
(* of at most MaxDecimalEntries rows whose amounts carry cents.            *)
(***************************************************************************)
MaxDecimalEntries == 3

DecimalInit ==
    /\ entryData = InitialEntryData
    /\ entries = <<>>
    /\ stats = NullObject
    /\ loading = TRUE
    /\ showAddEntry = FALSE
    /\ alertMsg = NoAlert
    /\ tzOffset = 0
    /\ typhoonApiKey = ApiKey
    /\ reading = 0
    /\ db = <<>>
    /\ pendingAdds = <<>>
    /\ fetches = <<>>
    /\ nAddCalls = 0
    /\ showUploadModal = FALSE
    /\ image = NoImage
    /\ modalFields = NullObject
    /\ ocrLoading = FALSE
    /\ ocrProgress = 0
    /\ ocrAnswer = NoAnswer
    /\ list = <<>>
    /\ result = calculateTotalsDouble(<<>>)
    /\ accumulators = NoAccumulators
    /\ calls = <<>>

\* The list grows by one row and its totals are computed anew.
AppendDecimalEntry ==
    /\ Len(list) < MaxDecimalEntries
    /\ \E e \in DecimalEntry : list' = Append(list, e)
    /\ result' = calculateTotalsDouble(list')
    /\ UNCHANGED <<formVars, viewVars, storeVars, ocrVars, tzOffset, typhoonApiKey, reading, accumulators, calls>>

DecimalNext == AppendDecimalEntry

DecimalSpec == DecimalInit /\ [][DecimalNext]_vars

(***************************************************************************)
(* CallerSpec: a caller that holds a list, lets it grow, and calls         *)
(* calculateFCDStats on it and on other lists, keeping a log of the calls. *)
(* A call runs the function's statements on the caller's array and on the  *)
(* bindings the call before it left behind.                                *)
(***************************************************************************)
MaxCalls == 3

\* The rows the caller's lists are made of: an inflow and an outflow, of
\* different amounts and rates.
CallerEntries ==
    {e \in FCDEntry : /\ e.tx_type = "GOLD_SELL"
                      /\ \/ e.status = "IN" /\ e.usd = 100
                         \/ e.status = "OUT" /\ e.usd = -50}

CallerInit ==
    /\ entryData = InitialEntryData
    /\ entries = <<>>
    /\ stats = NullObject
    /\ loading = TRUE
    /\ showAddEntry = FALSE
    /\ alertMsg = NoAlert
    /\ tzOffset = 0
    /\ typhoonApiKey = ApiKey
    /\ reading = 0
    /\ db = <<>>
    /\ pendingAdds = <<>>
    /\ fetches = <<>>
    /\ nAddCalls = 0
    /\ showUploadModal = FALSE
    /\ image = NoImage
    /\ modalFields = NullObject
    /\ ocrLoading = FALSE
    /\ ocrProgress = 0
    /\ ocrAnswer = NoAnswer
    /\ list = <<>>
    /\ result = NullObject
    /\ accumulators = NoAccumulators
    /\ calls = <<>>

\* The caller adds a row to its list; no call is made.
CallerAppends ==
    /\ Len(list) < MaxEntries
    /\ \E e \in CallerEntries : list' = Append(list, e)
    /\ UNCHANGED <<formVars, viewVars, storeVars, ocrVars, tzOffset, typhoonApiKey, reading, result,
                   accumulators, calls>>

\* calculateFCDStats(list): the caller's array, the bindings and the result
\* the caller holds are what the call leaves and returns; the log keeps the
\* array as it was handed over, as the call left it, and the record.
CallOnList ==
    /\ Len(calls) < MaxCalls
    /\ \E call \in {calculateFCDStatsCall(list, accumulators)} :
           /\ list' = call.entries
           /\ accumulators' = call.accumulators
           /\ result' = call.ret
           /\ calls' = Append(calls, [arg |-> list, left |-> call.entries, ret |-> call.ret])
    /\ UNCHANGED <<formVars, viewVars, storeVars, ocrVars, tzOffset, typhoonApiKey, reading>>

\* calculateFCDStats on some other array: the result the caller holds for
\* its own list stays, the bindings are those of this call.
CallOnOtherList ==
    /\ Len(calls) < MaxCalls
    /\ \E e \in CallerEntries :
          \E call \in {calculateFCDStatsCall(<<e>>, accumulators)} :
              /\ accumulators' = call.accumulators
              /\ calls' = Append(calls, [arg |-> <<e>>, left |-> call.entries, ret |-> call.ret])
    /\ UNCHANGED <<formVars, viewVars, storeVars, ocrVars, tzOffset, typhoonApiKey, reading, list, result>>

CallerNext == CallerAppends \/ CallOnList \/ CallOnOtherList

CallerSpec == CallerInit /\ [][CallerNext]_vars

(***************************************************************************)
(* ExtractionSpec: the upload modal holds the fields of an extraction,     *)
(* every combination of found and missing THB, USD and Rate with at least  *)
(* one of them found; the user fills the form from it, edits the amounts   *)
(* and saves.                                                              *)
(***************************************************************************)
\* Number.parseFloat of a matched amount, or null without a match.
ExtractedThb == {CapturedAmount(text) : text \in {NoCapture, ",", "0.00", "3,500.00"}}
ExtractedUsd == {CapturedAmount(text) : text \in {NoCapture, ",", "0", "100"}}
ExtractedRate == {CapturedAmount(text) : text \in {NoCapture, ",", "0", "35"}}

\* dateMatch[1], or null without a match: a date with its time of day, a
\* date alone, a date whose time of day is set against it without blanks,
\* and a date whose month is no month.
ExtractedDates ==
    {NoDate, "3 February 2026 - 3:30 PM", "5 March 2026", "5 March 2026-9:05 AM",
     "31 Foo 2026"}

\* if (thbMatch || usdMatch || rateMatch) fields = {...}
ExtractedFields ==
    { f \in [THB : ExtractedThb, USD : ExtractedUsd, Rate : ExtractedRate,
             Date : ExtractedDates] :
        f.THB # Null \/ f.USD # Null \/ f.Rate # Null }

ExtractionInit ==
    /\ entryData = InitialEntryData
    /\ entries = <<>>
    /\ stats = calculateFCDStats(<<>>)
    /\ loading = FALSE
    /\ showAddEntry = TRUE
    /\ alertMsg = NoAlert
    /\ tzOffset = 420
    /\ typhoonApiKey = ApiKey
    /\ reading = 0
    /\ db = <<>>
    /\ pendingAdds = <<>>
    /\ fetches = <<>>
    /\ nAddCalls = 0
    /\ showUploadModal = TRUE
    /\ image \in Images
    /\ modalFields \in ExtractedFields
    /\ ocrLoading = FALSE
    /\ ocrProgress = 0
    /\ ocrAnswer = NoAnswer
    /\ list = <<>>
    /\ result = calculateFCDStats(<<>>)
    /\ accumulators = NoAccumulators
    /\ calls = <<>>

ExtractionNext ==
    \/ EditModalAmount \/ EditModalDate
    \/ fillFromModal
    \/ EditUsd \/ EditThb \/ EditRate
    \/ handleAddEntryRejects \/ handleAddEntrySubmits
    \/ DismissAlert

ExtractionSpec == ExtractionInit /\ [][ExtractionNext]_vars

(***************************************************************************)
(* OcrSpec: extractText on every OCR answer of at most MaxPages pages.     *)
(* The modal is open; the user uploads an image, extracts, and closes or   *)
(* reopens the modal.                                                      *)
(***************************************************************************)
OcrInit ==
    /\ entryData = InitialEntryData
    /\ entries = <<>>
    /\ stats = calculateFCDStats(<<>>)
    /\ loading = FALSE
    /\ showAddEntry = FALSE
    /\ alertMsg = NoAlert
    /\ tzOffset = 420
    /\ typhoonApiKey \in ApiKeys
    /\ reading = 0
    /\ db = <<>>
    /\ pendingAdds = <<>>
    /\ fetches = <<>>
    /\ nAddCalls = 0
    /\ showUploadModal = TRUE
    /\ image = NoImage
    /\ modalFields = NullObject
    /\ ocrLoading = FALSE
    /\ ocrProgress = 0
    /\ ocrAnswer = NoAnswer
    /\ list = <<>>
    /\ result = calculateFCDStats(<<>>)
    /\ accumulators = NoAccumulators
    /\ calls = <<>>

\* The OCR service with every response of OcrResponses.
typhoonResponds == typhoonRespondsWith(OcrResponses)

OcrNext ==
    \/ handleImageUpload \/ readerOnload
    \/ extractTextStarts \/ imageBlobRead \/ typhoonResponds \/ typhoonRequestFails
    \/ extractTextReads
    \/ DismissAlert
    \/ resetOCR \/ OpenUploadModal

OcrSpec == OcrInit /\ [][OcrNext]_vars

(***************************************************************************)
(* TxTypeSpec: the entry form with the type select wired to either variant *)
(* of handleTxTypeChange.  The form mounts, and is reset, as an FX draft   *)
(* with status IN; it starts from every such draft the inputs can hold.    *)
(***************************************************************************)
TxTypeInit ==
    /\ entryData \in {d \in Drafts : d.tx_type = "FX" /\ d.status = "IN"}
    /\ entries = <<>>
    /\ stats = calculateFCDStats(<<>>)
    /\ loading = FALSE
    /\ showAddEntry = TRUE
    /\ alertMsg = NoAlert
    /\ tzOffset = 420
    /\ typhoonApiKey = ApiKey
    /\ reading = 0
    /\ db = <<>>
    /\ pendingAdds = <<>>
    /\ fetches = <<>>
    /\ nAddCalls = 0
    /\ showUploadModal = FALSE
    /\ image = NoImage
    /\ modalFields = NullObject
    /\ ocrLoading = FALSE
    /\ ocrProgress = 0
    /\ ocrAnswer = NoAnswer
    /\ list = <<>>
    /\ result = calculateFCDStats(<<>>)
    /\ accumulators = NoAccumulators
    /\ calls = <<>>

\* handleTxTypeChange of pages/FCDDashboard.tsx.
handleTxTypeChangeDashboard ==
    /\ CanUseForm
    /\ \E newType \in FCDTxType : entryData' = TxTypeChangedDashboard(entryData, newType)
    /\ UNCHANGED <<alertMsg, viewVars, storeVars, statsVars, ocrVars, tzOffset, typhoonApiKey, reading>>

TxTypeNext ==
    \/ EditDate \/ EditUsd \/ EditStatus \/ EditThb \/ EditRate
    \/ handleTxTypeChange
    \/ handleTxTypeChangeDashboard

TxTypeSpec == TxTypeInit /\ [][TxTypeNext]_vars

(***************************************************************************)
(* SaveSpec: saves that overlap.  The dashboard mounts; the user edits the *)
(* amounts and saves, up to MaxOverlappingSaves times, without waiting for *)
(* storage.  Storage answers every call, in any order.                     *)
(***************************************************************************)
\* Most calls of addFCDEntry in one run of SaveSpec.
MaxOverlappingSaves == 2

handleAddEntrySubmitsOverlapping == nAddCalls < MaxOverlappingSaves /\ SubmitsPayload

SaveNext ==
    \/ ToggleAddEntry
    \/ EditUsd \/ EditThb \/ EditRate
    \/ handleAddEntryRejects \/ handleAddEntrySubmitsOverlapping
    \/ DismissAlert
    \/ addFCDEntryResolves
    \/ fetchFCDEntriesReads \/ fetchDataResolves

SaveSpec == Init /\ [][SaveNext]_vars

(***************************************************************************)
(* GoldSpec: calculateFCDStats on every list of at most MaxGoldEntries     *)
(* gold rows whose amounts carry cents.                                    *)
(***************************************************************************)
MaxGoldEntries == 3

GoldInit ==
    /\ entryData = InitialEntryData
    /\ entries = <<>>
    /\ stats = NullObject
    /\ loading = TRUE
    /\ showAddEntry = FALSE
    /\ alertMsg = NoAlert
    /\ tzOffset = 0
    /\ typhoonApiKey = ApiKey
    /\ reading = 0
    /\ db = <<>>
    /\ pendingAdds = <<>>
    /\ fetches = <<>>
    /\ nAddCalls = 0
    /\ showUploadModal = FALSE
    /\ image = NoImage
    /\ modalFields = NullObject
    /\ ocrLoading = FALSE
    /\ ocrProgress = 0
    /\ ocrAnswer = NoAnswer
    /\ list = <<>>
    /\ result = calculateGoldDouble(<<>>)
    /\ accumulators = NoAccumulators
    /\ calls = <<>>

\* The list grows by one row and its statistics are computed anew.
AppendGoldEntry ==
    /\ Len(list) < MaxGoldEntries
    /\ \E e \in GoldEntry : list' = Append(list, e)
    /\ result' = calculateGoldDouble(list')
    /\ UNCHANGED <<formVars, viewVars, storeVars, ocrVars, tzOffset, typhoonApiKey, reading, accumulators, calls>>

GoldNext == AppendGoldEntry

GoldSpec == GoldInit /\ [][GoldNext]_vars

(***************************************************************************)
(* RateSpec: weighted_avg_rate of calculateFCDStats on every list of at    *)
(* most MaxRatedEntries rows whose rates carry satang.                     *)
(***************************************************************************)
MaxRatedEntries == 3

RateInit ==
    /\ entryData = InitialEntryData
    /\ entries = <<>>
    /\ stats = NullObject
    /\ loading = TRUE
    /\ showAddEntry = FALSE
    /\ alertMsg = NoAlert
    /\ tzOffset = 0
    /\ typhoonApiKey = ApiKey
    /\ reading = 0
    /\ db = <<>>
    /\ pendingAdds = <<>>
    /\ fetches = <<>>
    /\ nAddCalls = 0
    /\ showUploadModal = FALSE
    /\ image = NoImage
    /\ modalFields = NullObject
    /\ ocrLoading = FALSE
    /\ ocrProgress = 0
    /\ ocrAnswer = NoAnswer
    /\ list = <<>>
    /\ result = WeightedAvgRateDouble(<<>>)
    /\ accumulators = NoAccumulators
    /\ calls = <<>>

\* The list grows by one row and its average rate is computed anew.
AppendRatedEntry ==
    /\ Len(list) < MaxRatedEntries
    /\ \E e \in RatedEntry : list' = Append(list, e)
    /\ result' = WeightedAvgRateDouble(list')
    /\ UNCHANGED <<formVars, viewVars, storeVars, ocrVars, tzOffset, typhoonApiKey, reading, accumulators, calls>>

RateNext == AppendRatedEntry

RateSpec == RateInit /\ [][RateNext]_vars

(***************************************************************************)
(* Properties of calculateFCDStats, checked under StatsSpec.               *)
(***************************************************************************)
\* The sum of f[i] over the indices i in S.
RECURSIVE SumOver(_, _)
SumOver(S, f) ==
    IF S = {} THEN 0
    ELSE LET i == CHOOSE j \in S : TRUE IN f[i] + SumOver(S \ {i}, f)

Indices(holds(_)) == {i \in DOMAIN list : holds(list[i])}
UsdOf == [i \in DOMAIN list |-> list[i].usd]
AbsUsdOf == [i \in DOMAIN list |-> IF list[i].usd < 0 THEN -list[i].usd ELSE list[i].usd]
UsdTimesRateOf ==
    [i \in DOMAIN list |-> IF list[i].rate = Null THEN 0 ELSE list[i].usd * list[i].rate]

StatusIsInOrInterest(e) == e.status \in {"IN", "Interest"}
StatusIsOut(e) == e.status = "OUT"
StatusIsInterest(e) == e.status = "Interest"
\* A row of type GOLD_SELL: the type as written in the data model, or the
\* spelling of StoredTxType that carries white space around it.
TxIsGoldSell(e) == e.tx_type \in {"GOLD_SELL", PaddedGoldSell}
TxIsGoldBuy(e) == e.tx_type = "GOLD_BUY"
RateIsPositive(e) == e.rate # Null /\ e.rate > 0

\* The row the last step appended.
LastAppended == list'[Len(list')]

\* C1: for every entry list, total_in is the sum of usd over the entries
\* with status IN or Interest, total_out the sum of usd over the entries
\* with status OUT, and cash_remain is total_in - total_out.
C1_TotalsFollowStatus ==
    /\ result.total_in = SumOver(Indices(StatusIsInOrInterest), UsdOf)
    /\ result.total_out = SumOver(Indices(StatusIsOut), UsdOf)
    /\ result.cash_remain =
          SumOver(Indices(StatusIsInOrInterest), UsdOf) - SumOver(Indices(StatusIsOut), UsdOf)

\* An Interest row of 50 and an OUT row of 200: total_in 50, total_out 200,
\* cash_remain -150.
C1_Witness ==
    /\ Len(list) = 2
    /\ list[1].status = "Interest" /\ list[1].usd = 50
    /\ list[2].status = "OUT" /\ list[2].usd = 200
    /\ result.total_in = 50 /\ result.total_out = 200 /\ result.cash_remain = -150

\* C8: for every entry list, gold_profit is the sum of |usd| over the
\* GOLD_SELL entries minus the sum of |usd| over the GOLD_BUY entries,
\* whatever their status; a GOLD_BUY of 500 (OUT) with a GOLD_SELL of 600
\* (IN) gives gold_profit 100, total_in 600, total_out 500, cash_remain 100.
C8_GoldProfit ==
    /\ result.gold_profit =
          SumOver(Indices(TxIsGoldSell), AbsUsdOf) - SumOver(Indices(TxIsGoldBuy), AbsUsdOf)
    /\ (/\ Len(list) = 2
        /\ \E i, j \in DOMAIN list :
              /\ list[i].tx_type = "GOLD_BUY" /\ list[i].usd = 500 /\ list[i].status = "OUT"
              /\ list[j].tx_type = "GOLD_SELL" /\ list[j].usd = 600 /\ list[j].status = "IN")
       => /\ result.gold_profit = 100
          /\ result.total_in = 600
          /\ result.total_out = 500
          /\ result.cash_remain = 100

\* A GOLD_SELL of -50 with status OUT and a GOLD_BUY of 500 with status
\* PENDING: the profit counts |usd| of both, whatever the status.
C8_Witness ==
    /\ Len(list) = 2
    /\ list[1].tx_type = "GOLD_SELL" /\ list[1].usd = -50 /\ list[1].status = "OUT"
    /\ list[2].tx_type = "GOLD_BUY" /\ list[2].usd = 500 /\ list[2].status = "PENDING"
    /\ result.gold_profit = -450

\* a is a binary64 number: zero, or a mantissa of exactly 53 bits.
IsDouble(a) ==
    /\ a.neg \in BOOLEAN /\ a.e \in Int
    /\ BigBitLen(a.m) \in {0, MantissaBits}
    /\ a.m = <<>> => a = DoubleZero

\* |x - y| for natural numbers x and y.
BigDistance(x, y) == IF BigLess(x, y) THEN BigSub(y, x) ELSE BigSub(x, y)

\* a is a binary64 number nearest to the exact quotient n / d of the
\* integers n and d > 0: |a - n / d| is at most half a unit of a's last
\* mantissa bit, that is 2 * |m * d - |n| * 2^-e| <= d for a = +-m * 2^e.
NearestToQuotient(a, n, d) ==
    IF n = 0 THEN a = DoubleZero
    ELSE /\ a.m # <<>> /\ a.neg = (n < 0) /\ a.e <= 0
         /\ LET gap == BigDistance(BigMul(a.m, BigOfInt(d)),
                                   BigShiftLeft(BigOfInt(Abs(n)), -a.e))
            IN  ~BigLess(BigOfInt(d), BigTimesLimb(gap, 2))

\* C9, in every state: weighted_avg_rate is the binary64 number nearest to
\* R / W, W the sum of usd and R the sum of usd * rate over the entries
\* whose rate is present and > 0, and 0 when W is not > 0.
C9_RateIsWeightedMean ==
    LET W == SumOver(Indices(RateIsPositive), UsdOf)
        R == SumOver(Indices(RateIsPositive), UsdTimesRateOf)
        avg == result.weighted_avg_rate
    IN  /\ IsDouble(avg)
        /\ W > 0 => NearestToQuotient(avg, R, W)
        /\ ~(W > 0) => avg = DoubleZero

\* C9, in every step: appending an entry whose rate is null or 0 leaves
\* weighted_avg_rate unchanged.
C9_NoRateNoChange ==
    (Len(list') = Len(list) + 1 /\ LastAppended.rate \in {Null, 0})
        => result'.weighted_avg_rate = result.weighted_avg_rate

\* C9: weighted_avg_rate is the usd-weighted mean of the rates that are
\* present and > 0, 0 when the weights do not sum to more than 0, and
\* entries with a null or 0 rate take no part in it.
C9_WeightedAvgRate == [](C9_RateIsWeightedMean) /\ [][C9_NoRateNoChange]_vars

\* 100 at 35 and 200 at 36: (100 * 35 + 200 * 36) / 300 is 10700 / 300,
\* in binary64 35.666666666666664 = 0x1.1d55555555555p+5.
C9_Witness ==
    /\ Len(list) = 2
    /\ list[1].usd = 100 /\ list[1].rate = 35
    /\ list[2].usd = 200 /\ list[2].rate = 36
    /\ result.weighted_avg_rate =
          PositiveDouble(<<21845, 10922, 21845, 142>>, -47)

\* C10, in every state: interest_income is the sum of usd over exactly the
\* entries with status Interest, whatever their tx_type.
C10_InterestIncomeIsSum ==
    result.interest_income = SumOver(Indices(StatusIsInterest), UsdOf)

\* C10, in every step: an appended entry with status Interest adds its usd
\* to total_in and to interest_income and is counted in active_entries.
C10_InterestCountsTwice ==
    (Len(list') = Len(list) + 1 /\ LastAppended.status = "Interest")
        => /\ result'.total_in = result.total_in + LastAppended.usd
           /\ result'.interest_income = result.interest_income + LastAppended.usd
           /\ result'.active_entries = result.active_entries + 1

\* C10: an entry with status Interest contributes its usd to total_in and
\* to interest_income at once and is counted in active_entries;
\* interest_income is the sum of usd over exactly the Interest entries.
C10_InterestIsInflow == [](C10_InterestIncomeIsSum) /\ [][C10_InterestCountsTwice]_vars

\* One entry, status Interest, usd 50, not of type INTEREST: total_in and
\* interest_income are both 50 and the entry is active.
C10_Witness ==
    /\ Len(list) = 1
    /\ list[1].status = "Interest" /\ list[1].usd = 50 /\ list[1].tx_type = "TRANSFER"
    /\ result.total_in = 50 /\ result.interest_income = 50 /\ result.active_entries = 1

(***************************************************************************)
(* Properties of handleAddEntry.                                           *)
(***************************************************************************)
IsPositive(x) == x # Null /\ x > 0
IsPresentNonZero(x) == x # Null /\ x # 0

\* What a payload passed to addFCDEntry has to satisfy.
PayloadIsWellFormed(p) ==
    /\ p.usd > 0
    /\ p.tx_type = "FX" => IsPositive(p.thb) /\ IsPositive(p.rate)
    /\ p.tx_type # "FX" => p.thb = Null /\ p.rate = Null

TypeRulesSatisfied(draft) ==
    IF draft.tx_type = "FX" THEN IsPositive(draft.thb) /\ IsPositive(draft.rate)
    ELSE ~IsPresentNonZero(draft.thb) /\ ~IsPresentNonZero(draft.rate)

\* The alerts with which handleAddEntry rejects a draft.
ValidationAlerts ==
    {AlertFx, AlertUsd} \cup {AlertThb(t) : t \in FCDTxType} \cup {AlertRate(t) : t \in FCDTxType}

\* The step passes a payload to addFCDEntry.
CallsAddFCDEntry == nAddCalls' = nAddCalls + 1
\* The step passes no payload to addFCDEntry.
NoAddFCDEntryCall == nAddCalls' = nAddCalls /\ Len(pendingAdds') <= Len(pendingAdds)
\* The payload the step passed to addFCDEntry.
PassedPayload == pendingAdds'[Len(pendingAdds')]

\* C2: after any sequence of form operations (field edits,
\* handleTxTypeChange, fillFromModal, handleAddEntry and the post-save
\* reset), every payload handleAddEntry passes to addFCDEntry has usd > 0,
\* thb > 0 and rate > 0 when tx_type is FX, and thb = null and rate = null
\* otherwise; so has every stored row and the payload the current draft
\* would give if it were submitted now.  Checked under DraftSpec.
C2_PayloadsAreWellFormed ==
    /\ \A i \in DOMAIN pendingAdds : PayloadIsWellFormed(pendingAdds[i])
    /\ \A i \in DOMAIN db : PayloadIsWellFormed(db[i])
    /\ (ValidationAlert(entryData) = NoAlert /\ IsValidDate(entryData.date))
          => PayloadIsWellFormed(BuildPayload(entryData, tzOffset))

\* The modal was closed by fillFromModal (resetOCR, the other way to close
\* it, leaves no fields behind), and the draft is what fillFromModal set (FX,
\* IN, the amounts of the modal) switched to GOLD_SELL, which set its thb
\* and rate to null; its payload is in flight.
C2_Witness ==
    /\ ~showUploadModal /\ modalFields # NullObject
    /\ modalFields.USD = 1 /\ modalFields.THB = 1 /\ modalFields.Rate = 0
    /\ entryData = TxTypeChanged(FilledEntryData(modalFields), "GOLD_SELL")
    /\ entryData.thb = Null /\ entryData.rate = Null
    /\ Len(pendingAdds) = 1
    /\ pendingAdds[1] = BuildPayload(entryData, tzOffset)
    /\ pendingAdds[1].tx_type = "GOLD_SELL"
    /\ pendingAdds[1].usd = 1 /\ pendingAdds[1].thb = Null /\ pendingAdds[1].rate = Null

\* C3: a draft with tx_type FX is rejected unless rate > 0 and thb > 0,
\* null counting as not positive: no step from such a draft calls
\* addFCDEntry, and handleAddEntry answers with the FX alert.
C3_FxNeedsRateAndThb ==
    [][(entryData.tx_type = "FX"
          /\ ~(IsPositive(entryData.rate) /\ IsPositive(entryData.thb)))
         => /\ NoAddFCDEntryCall
            /\ handleAddEntry => alertMsg' = AlertFx]_vars

\* The draft {FX, usd 100, thb null, rate 35} has been rejected.
C3_Witness ==
    /\ entryData.tx_type = "FX" /\ entryData.usd = 100
    /\ entryData.thb = Null /\ entryData.rate = 35
    /\ alertMsg = AlertFx
    /\ nAddCalls = 0 /\ pendingAdds = <<>> /\ db = <<>>

\* C4: a draft whose tx_type is not FX is rejected when thb is present and
\* non-zero or rate is present and non-zero; when thb and rate are each null
\* or 0, handleAddEntry does not reject it with the thb or the rate alert.
C4_NonFxRefusesThbAndRate ==
    [][entryData.tx_type # "FX"
         => /\ (IsPresentNonZero(entryData.thb) \/ IsPresentNonZero(entryData.rate))
               => /\ NoAddFCDEntryCall
                  /\ handleAddEntry
                       => alertMsg' \in {AlertThb(entryData.tx_type), AlertRate(entryData.tx_type)}
            /\ (entryData.thb \in {Null, 0} /\ entryData.rate \in {Null, 0} /\ handleAddEntry)
               => alertMsg' \notin {AlertThb(entryData.tx_type), AlertRate(entryData.tx_type)}]_vars

\* A GOLD_BUY draft with thb -1 has been rejected with the thb alert.
C4_Witness ==
    /\ entryData.tx_type = "GOLD_BUY" /\ entryData.thb = -1 /\ entryData.usd = 100
    /\ alertMsg = AlertThb("GOLD_BUY")
    /\ nAddCalls = 0 /\ pendingAdds = <<>>

\* C5: for every tx_type, a draft with usd <= 0 is rejected and nothing is
\* appended, also when the type rules are satisfied (then with the usd
\* alert).
C5_UsdMustBePositive ==
    [][entryData.usd <= 0
         => /\ NoAddFCDEntryCall
            /\ handleAddEntry
                 => /\ alertMsg' \in ValidationAlerts
                    /\ UNCHANGED <<db, entries>>
                    /\ TypeRulesSatisfied(entryData) => alertMsg' = AlertUsd]_vars

\* An FX draft with thb 3500 and rate 35, usd -1, has been rejected with
\* the usd alert.
C5_Witness ==
    /\ entryData.tx_type = "FX" /\ entryData.thb = 3500 /\ entryData.rate = 35
    /\ entryData.usd = -1
    /\ alertMsg = AlertUsd
    /\ nAddCalls = 0 /\ db = <<>>

\* C6: an accepted draft whose tx_type is not FX is submitted with
\* thb = null and rate = null whatever the draft holds ({GOLD_BUY, usd 100,
\* thb 0, rate 0} is accepted and sent with null, null); an accepted FX
\* draft is submitted with its thb and rate unchanged.
C6_PayloadThbAndRate ==
    [][/\ CallsAddFCDEntry
          => /\ PassedPayload.tx_type = entryData.tx_type
             /\ PassedPayload.usd = entryData.usd
             /\ entryData.tx_type # "FX"
                  => PassedPayload.thb = Null /\ PassedPayload.rate = Null
             /\ entryData.tx_type = "FX"
                  => PassedPayload.thb = entryData.thb /\ PassedPayload.rate = entryData.rate
       /\ (/\ entryData.tx_type = "GOLD_BUY" /\ entryData.usd = 100
           /\ entryData.thb = 0 /\ entryData.rate = 0
           /\ handleAddEntry)
          => alertMsg' = NoAlert]_vars

\* The draft {GOLD_BUY, usd 100, thb 0, rate 0} has been submitted with
\* thb null and rate null.
C6_Witness ==
    /\ entryData.tx_type = "GOLD_BUY" /\ entryData.usd = 100
    /\ entryData.thb = 0 /\ entryData.rate = 0
    /\ Len(pendingAdds) = 1
    /\ pendingAdds[1].tx_type = "GOLD_BUY" /\ pendingAdds[1].usd = 100
    /\ pendingAdds[1].thb = Null /\ pendingAdds[1].rate = Null

\* C7: when handleAddEntry rejects a draft, addFCDEntry is not called, no
\* fetchData is triggered, and entryData, entries and stats are unchanged.
C7_RejectionChangesNothing ==
    [][(alertMsg = NoAlert /\ alertMsg' \in ValidationAlerts)
         => /\ NoAddFCDEntryCall
            /\ UNCHANGED <<entryData, entries, stats, loading>>
            /\ UNCHANGED <<db, pendingAdds, fetches>>]_vars

\* After one entry was saved and loaded, the draft left by the reset has
\* been rejected; the saved entry is still the only one.
C7_Witness ==
    /\ alertMsg = AlertFx
    /\ entryData = ResetEntryData
    /\ nAddCalls = 1 /\ Len(db) = 1
    /\ Len(entries) = 1 /\ stats # NullObject /\ stats.total_entries = 1

(***************************************************************************)
(* Further properties of calculateFCDStats, checked under StatsSpec.       *)
(***************************************************************************)
StatusIsCounted(e) == e.status \in {"IN", "OUT", "Interest"}

\* C11: an entry whose status is none of IN, OUT, Interest changes neither
\* total_in nor total_out nor cash_remain and is not counted in
\* active_entries: the list without such entries gives the same four
\* values; total_entries still counts every entry.
C11_OtherStatusesExcluded ==
    LET without == SelectSeq(list, StatusIsCounted)
        total_in == Reduce(Filter(without, IsInflow), UsdTerm, 0)
        total_out == Reduce(Filter(without, IsOutflow), UsdTerm, 0)
    IN  /\ result.total_in = total_in
        /\ result.total_out = total_out
        /\ result.cash_remain = total_in - total_out
        /\ result.active_entries = Len(Filter(without, IsInflow))
        /\ result.total_entries = Len(list)
        /\ result.total_entries =
              Len(without) + Cardinality(DOMAIN list \ Indices(StatusIsCounted))

\* A PENDING row of 500 beside an IN row of 600: total_in 600, total_out 0,
\* one active entry out of two.
C11_Witness ==
    /\ Len(list) = 2
    /\ list[1].status = "PENDING" /\ list[1].usd = 500
    /\ list[2].status = "IN" /\ list[2].usd = 600
    /\ result.total_in = 600 /\ result.total_out = 0 /\ result.cash_remain = 600
    /\ result.active_entries = 1 /\ result.total_entries = 2

\* The record whose every field is zero.
ZeroStats ==
    [ total_in |-> 0, total_out |-> 0, cash_remain |-> 0, gold_profit |-> 0,
      interest_income |-> 0, total_usd |-> 0, total_thb |-> 0,
      weighted_avg_rate |-> DoubleZero,
      total_value_thb |-> DoubleZero,
      total_value_usd |-> DoubleZero,
      total_entries |-> 0, active_entries |-> 0 ]

\* C12: calculateFCDStats([]) returns a record in which every one of the
\* twelve fields is zero, and no division is performed.
C12_EmptyListAllZero ==
    /\ calculateFCDStats(<<>>) = ZeroStats
    /\ Divisors(<<>>) = {}
    /\ list = <<>> => result = ZeroStats /\ Divisors(list) = {}

\* The caller holds the empty list and its statistics.
C12_Witness ==
    /\ list = <<>>
    /\ result.total_entries = 0 /\ result.active_entries = 0
    /\ result.weighted_avg_rate = DoubleZero
    /\ result.total_value_usd = DoubleZero

\* C15: total_value_thb = total_thb + cash_remain * weighted_avg_rate;
\* total_value_usd = cash_remain + total_thb / weighted_avg_rate when
\* weighted_avg_rate > 0 and cash_remain otherwise, each operation being
\* the binary64 one on the returned weighted_avg_rate; no division by a
\* zero weighted_avg_rate (or any zero divisor) occurs.
C15_TotalValues ==
    LET rate == result.weighted_avg_rate
        inThb == result.total_value_thb
        inUsd == result.total_value_usd
        thb == result.total_thb
        cash == result.cash_remain
    IN  /\ IsDouble(rate) /\ IsDouble(inThb) /\ IsDouble(inUsd)
        /\ inThb = DoubleAdd(DoubleOfInt(thb), DoubleMul(DoubleOfInt(cash), rate))
        /\ DoublePos(rate)
              => inUsd = DoubleAdd(DoubleOfInt(cash), DoubleDiv(DoubleOfInt(thb), rate))
        /\ ~DoublePos(rate) => inUsd = DoubleOfInt(cash)
        /\ \A divisor \in Divisors(list) : DoublePos(divisor)

\* 100 at 35 with thb 3500 (IN) and 200 at 36 with thb 7200 (OUT):
\* total_thb 10700, cash_remain -100, rate 35.666666666666664, so
\* total_value_thb is 7133.333333333334 = 0x1.bdd5555555556p+12 and
\* total_value_usd is 200.
C15_Witness ==
    /\ Len(list) = 2
    /\ list[1].usd = 100 /\ list[1].status = "IN"
    /\ list[2].usd = 200 /\ list[2].status = "OUT"
    /\ result.total_thb = 10700 /\ result.cash_remain = -100
    /\ result.weighted_avg_rate =
          PositiveDouble(<<21845, 10922, 21845, 142>>, -47)
    /\ result.total_value_thb =
          PositiveDouble(<<21846, 10922, 30037, 222>>, -40)
    /\ result.total_value_usd = DoubleOfInt(200)

ThbOf == [i \in DOMAIN list |-> IF list[i].thb = Null THEN 0 ELSE list[i].thb]

\* C16: total_thb is the sum of thb over all entries, of every tx_type and
\* every status, a null thb counting as zero.
C16_TotalThb == result.total_thb = SumOver(DOMAIN list, ThbOf)

\* A GOLD_BUY row with status PENDING and thb 3500 beside a row with a null
\* thb: total_thb is 3500.
C16_Witness ==
    /\ Len(list) = 2
    /\ list[1].tx_type = "GOLD_BUY" /\ list[1].status = "PENDING" /\ list[1].thb = 3500
    /\ list[2].thb = Null
    /\ result.total_thb = 3500

\* C17: total_entries is the length of the input list, active_entries the
\* number of entries with status IN or Interest, and so
\* 0 <= active_entries <= total_entries.
C17_EntryCounts ==
    /\ result.total_entries = Len(list)
    /\ result.active_entries = Cardinality(Indices(StatusIsInOrInterest))
    /\ 0 <= result.active_entries
    /\ result.active_entries <= result.total_entries

\* An Interest row and an OUT row: two entries, one of them active.
C17_Witness ==
    /\ Len(list) = 2
    /\ list[1].status = "Interest" /\ list[2].status = "OUT"
    /\ result.total_entries = 2 /\ result.active_entries = 1

\* The fields of FCDStats that hold sums and counts, and those that hold
\* quotients.
IntegerFields ==
    {"total_in", "total_out", "cash_remain", "gold_profit", "interest_income",
     "total_usd", "total_thb", "total_entries", "active_entries"}
QuotientFields == {"weighted_avg_rate", "total_value_thb", "total_value_usd"}

\* C18: calculateFCDStats never fails: for every entry list, the empty
\* list and lists with rows that break the data model (an FX row with a
\* null rate or a null thb) included, it returns a record with every field
\* defined.
C18_AlwaysReturnsStats ==
    /\ result # NullObject
    /\ DOMAIN result = IntegerFields \cup QuotientFields
    /\ \A f \in IntegerFields : result[f] \in Int
    /\ \A f \in QuotientFields : IsDouble(result[f])

\* A list of an FX row with null thb and null rate and an FX row with rate
\* 0 has its statistics.
C18_Witness ==
    /\ Len(list) = 2
    /\ list[1].tx_type = "FX" /\ list[1].thb = Null /\ list[1].rate = Null
    /\ list[2].tx_type = "FX" /\ list[2].thb = Null /\ list[2].rate = 0
    /\ result # NullObject
    /\ result.total_entries = 2 /\ result.weighted_avg_rate = DoubleZero

(***************************************************************************)
(* Order of the input, checked under DecimalSpec.                          *)
(***************************************************************************)
\* The list s rearranged by p.
Permuted(s, p) == [i \in 1..Len(s) |-> s[p[i]]]

\* C13: for every entry list L and every permutation P of L,
\* calculateFCDStats(P) equals calculateFCDStats(L) in every aggregate
\* field (here: total_in and total_out of rows whose amounts carry cents).
C13_OrderIndependent ==
    \A p \in Permutations(1..Len(list)) : calculateTotalsDouble(Permuted(list, p)) = result

(***************************************************************************)
(* Repeated calls, checked under CallerSpec.                               *)
(***************************************************************************)
\* C14, in every state: any two calls on the same list have returned
\* identical records, whatever calls were made in between and whatever
\* the bindings held when each call began.
C14_SameListSameResult ==
    \A i, j \in DOMAIN calls : calls[i].arg = calls[j].arg => calls[i].ret = calls[j].ret

\* C14, in every state: every call has left the array it was handed, and
\* each row in it, as it found them.
C14_ArgumentLeftAsFound ==
    \A i \in DOMAIN calls :
        /\ Len(calls[i].left) = Len(calls[i].arg)
        /\ \A k \in DOMAIN calls[i].arg : calls[i].left[k] = calls[i].arg[k]

\* C14, in every step: a call leaves the caller's list, its rows and the
\* records returned earlier as they were.
C14_CallLeavesInputAlone ==
    Len(calls') > Len(calls)
        => /\ list' = list
           /\ SubSeq(calls', 1, Len(calls)) = calls
           /\ calls'[Len(calls')].arg \in {list} \cup {<<e>> : e \in CallerEntries}

\* C14: calculateFCDStats does not mutate its input list or any entry in
\* it and keeps no hidden state: two calls on the same unmodified list
\* yield identical results in every field, whatever other calls happened
\* in between.
C14_RepeatedCallsAgree ==
    /\ [](C14_SameListSameResult /\ C14_ArgumentLeftAsFound)
    /\ [][C14_CallLeavesInputAlone]_vars

\* Two calls on the caller's two-row list with a call on another list in
\* between, which left other sums in the bindings: the same record both
\* times, with a non-zero total_in and a rate averaged over the list's own
\* rows.
C14_Witness ==
    /\ Len(calls) = 3 /\ Len(list) = 2
    /\ calls[1].arg = list /\ calls[3].arg = list
    /\ calls[2].arg # list /\ calls[2].ret # calls[1].ret
    /\ calls[2].ret.weighted_avg_rate # calls[1].ret.weighted_avg_rate
    /\ calls[1].ret = calls[3].ret
    /\ calls[3].ret.total_in = 200 /\ result = calls[3].ret
    /\ result = calculateFCDStats(list)
    /\ accumulators.totalUsdForRate = TotalUsdForRate(list)
    /\ accumulators.totalUsdForRate > 0

(***************************************************************************)
(* The date of a payload, checked under ValidatorSpec.                     *)
(***************************************************************************)
\* The numeric UTC-offset suffixes: a sign, two digits of hours, a colon,
\* two digits of minutes.
NumericOffsets ==
    {sign \o TwoDigits(h) \o ":" \o TwoDigits(m) :
        sign \in {"+", "-"}, h \in 0..14, m \in {0, 30, 45}}

\* d is a local date-time with seconds followed by a numeric UTC offset.
HasNumericOffset(d) ==
    \E local \in TypedDates \ {""}, suffix \in NumericOffsets :
        d = local \o ":00" \o suffix

\* C19: every payload handleAddEntry submits carries a date converted from
\* the draft's local timestamp into a timestamp with an explicit numeric
\* UTC-offset suffix, for every local offset, offset zero included; and
\* addFCDEntry is never called for a draft whose timestamp does not parse.
C19_DateCarriesNumericOffset ==
    /\ \A i \in DOMAIN pendingAdds : HasNumericOffset(pendingAdds[i].date)
    /\ \A i \in DOMAIN db : HasNumericOffset(db[i].date)
    /\ ~IsValidDate(entryData.date) => nAddCalls = 0 /\ pendingAdds = <<>> /\ db = <<>>

(***************************************************************************)
(* The statistics the dashboard holds, checked under FormSpec.             *)
(***************************************************************************)
\* A fetchData call ends without an answer from storage.
FetchFails ==
    \E i \in DOMAIN fetches : ~fetches[i].read /\ fetches' = RemoveAt(fetches, i)

\* C20, in every state: stats is null, with no entries held, or it is
\* calculateFCDStats of the entries held.
C20_StatsOfHeldEntries ==
    /\ stats = NullObject => entries = <<>>
    /\ stats # NullObject => stats = calculateFCDStats(entries)

\* C20, in every step: a failed fetch leaves entries and stats at their
\* previous values and sets loading to false; any step that changes the
\* entries sets stats to the statistics of the new list.
C20_FetchOutcome ==
    /\ FetchFails => entries' = entries /\ stats' = stats /\ loading' = FALSE
    /\ (entries' # entries \/ stats' # stats)
          => stats' = calculateFCDStats(entries') /\ loading' = FALSE

\* C20: in every reachable dashboard state stats is null or equal to
\* calculateFCDStats(entries); the aggregates are recomputed from the full
\* list on each successful fetch, and a failed fetch leaves entries and
\* stats as they were and sets loading to false.
C20_StatsAreRecomputed == [](C20_StatsOfHeldEntries) /\ [][C20_FetchOutcome]_vars

\* One entry has been saved; the fetch that followed failed, and the
\* dashboard still holds the empty list and its statistics from the first
\* fetch.
C20_Witness ==
    /\ Len(db) = 1 /\ nAddCalls = 1 /\ pendingAdds = <<>>
    /\ fetches = <<>> /\ ~loading
    /\ entries = <<>>
    /\ stats # NullObject /\ stats = calculateFCDStats(<<>>)

(***************************************************************************)
(* Drafts filled from an extraction, checked under ExtractionSpec.         *)
(***************************************************************************)
\* fillFromModal sets an FX draft with status IN in which every amount the
\* extraction did not find, or found without a digit in it, is 0.
C21_FillGivesFxDraft ==
    fillFromModal =>
        /\ entryData'.tx_type = "FX" /\ entryData'.status = "IN"
        /\ modalFields.THB \in {Null, NaN} => entryData'.thb = 0
        /\ modalFields.USD \in {Null, NaN} => entryData'.usd = 0
        /\ modalFields.Rate \in {Null, NaN} => entryData'.rate = 0
        /\ IsValidDate(entryData'.date)
        /\ NoAddFCDEntryCall

\* An FX draft in which thb, rate or usd is not strictly positive is not
\* passed to addFCDEntry, and saving it is answered with an alert.
C21_IncompleteDraftIsRejected ==
    (entryData.tx_type = "FX"
       /\ ~(IsPositive(entryData.thb) /\ IsPositive(entryData.rate) /\ entryData.usd > 0))
      => /\ NoAddFCDEntryCall
         /\ db' = db
         /\ (handleAddEntryRejects \/ handleAddEntrySubmits) => alertMsg' \in {AlertFx, AlertUsd}

\* C21: an OCR-extracted draft gets no special trust: fillFromModal turns
\* any extraction into an FX draft with each missing THB, USD or Rate set
\* to 0, and handleAddEntry rejects that draft, appending nothing, unless
\* thb, rate and usd have all since been made strictly positive, however
\* partial the extraction was.
C21_ExtractedDraftGetsNoTrust ==
    [][C21_FillGivesFxDraft /\ C21_IncompleteDraftIsRejected]_vars

\* The extraction found the rate alone; the draft filled from it, with usd
\* and thb 0, has been refused and nothing was submitted.
C21_Witness ==
    /\ modalFields # NullObject
    /\ modalFields.Rate = 35 /\ modalFields.THB = Null /\ modalFields.USD = Null
    /\ ~showUploadModal
    /\ entryData = FilledEntryData(modalFields)
    /\ entryData.rate = 35 /\ entryData.thb = 0 /\ entryData.usd = 0
    /\ alertMsg = AlertFx
    /\ nAddCalls = 0 /\ pendingAdds = <<>> /\ db = <<>>

(***************************************************************************)
(* A failed save, checked under FormSpec.                                  *)
(***************************************************************************)
\* The step ends an addFCDEntry call without a row being stored.
AddFails == Len(pendingAdds') < Len(pendingAdds) /\ db' = db

\* addFCDEntry is called only by a Save that passed the validation, once.
C22_OneCallPerSave ==
    nAddCalls' # nAddCalls =>
        /\ nAddCalls' = nAddCalls + 1
        /\ handleAddEntrySubmits
        /\ pendingAdds' = Append(pendingAdds, BuildPayload(entryData, tzOffset))

\* A failed call is reported and changes nothing else.
C22_FailureOutcome ==
    AddFails =>
        /\ alertMsg' = AlertAddFailed
        /\ nAddCalls' = nAddCalls
        /\ Len(pendingAdds') = Len(pendingAdds) - 1
        /\ entryData' = entryData
        /\ fetches' = fetches
        /\ entries' = entries /\ stats' = stats /\ loading' = loading

\* C22: when addFCDEntry fails, handleAddEntry does not retry (addFCDEntry
\* is called exactly once per accepted Save), reports the failure, leaves
\* the draft unchanged so the user can resubmit, does not trigger
\* fetchData, and leaves entries and stats unchanged.
C22_FailedSaveIsNotRetried == [][C22_OneCallPerSave /\ C22_FailureOutcome]_vars

\* The one save made has failed: the alert is on screen, no call and no
\* fetch is in flight, the table is empty, and the draft is still the valid
\* draft that was submitted.
C22_Witness ==
    /\ alertMsg = AlertAddFailed
    /\ nAddCalls = 1 /\ pendingAdds = <<>> /\ db = <<>>
    /\ fetches = <<>>
    /\ ValidationAlert(entryData) = NoAlert /\ entryData.usd = 1
    /\ entries = <<>> /\ stats = calculateFCDStats(<<>>)

(***************************************************************************)
(* Extractions without a usable field, checked under OcrSpec.              *)
(***************************************************************************)
\* The step is the one in which extractText, having read the body of the
\* response, either sets the fields and returns or throws into its catch
\* block.
ReadsBody ==
    /\ alertMsg = NoAlert /\ ocrLoading /\ ocrProgress = 60
    /\ IsOcrAlert(alertMsg') \/ ~ocrLoading'

\* The call throws: the alert is raised and modalFields is not set.
EndsAsError == IsOcrAlert(alertMsg') /\ modalFields' = modalFields

\* While the alert of extractText is on screen nothing happens but its
\* dismissal, with which the call finishes: ocrLoading false, ocrProgress
\* 0, modalFields as it was.
FinishesAfterAlert ==
    IsOcrAlert(alertMsg) =>
        /\ alertMsg' = NoAlert
        /\ modalFields' = modalFields
        /\ ~ocrLoading' /\ ocrProgress' = 0

\* The content of the i-th page matches THB, USD or Rate.
ContentMatches(results, i) == results[i].message /\ IsUsable(results[i].matches)

\* The i-th page is one the loop takes fields from, and no page before it
\* reports failure.
MatchesBeforeAnyFailure(results, i) ==
    /\ results[i].success /\ ContentMatches(results, i)
    /\ \A j \in 1..(i - 1) : results[j].success

\* The statement as it is worded in C23: an extraction in which no page
\* result matches any of THB, USD or Rate, or in which a page result
\* reports failure, ends as an error.
C23_NoUsableFieldIsAnError ==
    [][/\ (ReadsBody
             /\ LET results == ocrAnswer.results
                IN  \/ \A i \in DOMAIN results : ~ContentMatches(results, i)
                    \/ \E i \in DOMAIN results : ~results[i].success)
            => EndsAsError
       /\ FinishesAfterAlert]_vars

\* C23: an extraction that yields no usable field ends as an error:
\* extractText does not set modalFields, and it finishes with ocrLoading =
\* false and ocrProgress = 0.  No usable field is yielded exactly when no
\* successful page result matches any of THB, USD or Rate before the first
\* page result that reports failure; otherwise the fields of the first
\* matching page are set, even if a later page result reports failure.
C23_FailureBeforeMatchIsAnError ==
    [][/\ ReadsBody
            => LET results == ocrAnswer.results
                   matching == {i \in DOMAIN results : MatchesBeforeAnyFailure(results, i)}
               IN  IF matching = {}
                   THEN EndsAsError
                   ELSE /\ \E i \in matching :
                             /\ \A j \in matching : i <= j
                             /\ modalFields' = FieldsOf(results[i].matches)
                        /\ alertMsg' = NoAlert
                        /\ ~ocrLoading' /\ ocrProgress' = 0
       /\ FinishesAfterAlert]_vars

\* The answer held a page that reports failure and then a page with every
\* field: the call has thrown, its alert is on screen and no fields are set.
C23_Witness ==
    /\ ocrAnswer # NoAnswer
    /\ Len(ocrAnswer.results) = 2
    /\ ~ocrAnswer.results[1].success /\ ocrAnswer.results[1].error = "bad page"
    /\ ocrAnswer.results[2].success /\ ocrAnswer.results[2].message
    /\ ocrAnswer.results[2].matches.THB = "3,500.00"
    /\ alertMsg = "Error extracting text: OCR processing failed: bad page"
    /\ modalFields = NullObject
    /\ ocrLoading /\ ocrProgress = 80

(***************************************************************************)
(* The two variants of handleTxTypeChange, checked under TxTypeSpec.       *)
(***************************************************************************)
\* C24: the source contains two variants of the tx_type-to-status mapping
\* that differ only for INTEREST: handleTxTypeChange('INTEREST') sets the
\* draft status to 'Interest' in one variant and to 'IN' in the other; for
\* every other tx_type and every prior draft the two variants produce the
\* same draft.
C24_VariantsDifferOnlyForInterest ==
    \A newType \in FCDTxType :
        LET one == TxTypeChanged(entryData, newType)
            other == TxTypeChangedDashboard(entryData, newType)
        IN  IF newType = "INTEREST"
            THEN /\ one.status = "Interest"
                 /\ other.status = "IN"
                 /\ [one EXCEPT !.status = "IN"] = other
            ELSE one = other

\* A draft of type INTEREST with status IN: only the variant of
\* pages/FCDDashboard.tsx leaves the form in it.
C24_Witness ==
    /\ entryData.tx_type = "INTEREST" /\ entryData.status = "IN"
    /\ entryData.thb = Null /\ entryData.rate = Null
    /\ TxTypeChanged(entryData, "INTEREST").status = "Interest"
    /\ TxTypeChangedDashboard(entryData, "INTEREST") = entryData

(***************************************************************************)
(* The status of what is submitted, checked under DraftSpec.               *)
(***************************************************************************)
\* The status handleTxTypeChange gives each tx_type; TRANSFER keeps one of
\* the options of the status select.
StatusFixedByType(e) ==
    CASE e.tx_type = "FX" -> e.status = "IN"
      [] e.tx_type = "GOLD_BUY" -> e.status = "OUT"
      [] e.tx_type = "GOLD_SELL" -> e.status = "IN"
      [] e.tx_type = "INTEREST" -> e.status = "Interest"
      [] e.tx_type = "TRANSFER" -> e.status \in {"IN", "OUT", "Interest"}

TxIsInterest(e) == e.tx_type = "INTEREST"

\* The statistics engine counts the row in total_in or total_out, and an
\* INTEREST row adds its usd to interest_income.
CountedByEngine(e) ==
    /\ IsInflow(e) \/ IsOutflow(e)
    /\ e.tx_type = "INTEREST" => IsInterest(e)

\* C25: after any sequence of form operations every payload submitted to
\* storage has a status fixed by its tx_type (FX -> IN, GOLD_BUY -> OUT,
\* GOLD_SELL -> IN, INTEREST -> Interest), and only a TRANSFER may carry a
\* user-chosen status, which is one of IN, OUT, Interest; hence no
\* submitted entry has a status that the statistics engine silently
\* excludes, and every submitted INTEREST entry counts toward
\* interest_income: in the total_in, total_out and interest_income that
\* calculateFCDStats computes of the stored rows, every usd is in total_in
\* or total_out, and interest_income holds the usd of every INTEREST row.
C25_StatusFixedByTxType ==
    /\ StatusFixedByType(entryData)
    /\ \A i \in DOMAIN pendingAdds :
          StatusFixedByType(pendingAdds[i]) /\ CountedByEngine(pendingAdds[i])
    /\ \A i \in DOMAIN db :
          /\ StatusFixedByType(db[i]) /\ CountedByEngine(db[i])
          /\ db[i].tx_type = "INTEREST" => InterestIncome(<<db[i]>>) = db[i].usd
    /\ TotalIn(db) + TotalOut(db) = Reduce(db, UsdTerm, 0)
    /\ InterestIncome(db) >= Reduce(Filter(db, TxIsInterest), UsdTerm, 0)

\* The modal was closed by fillFromModal, which set the draft to FX and IN
\* with the amounts of the slip; the draft was switched to INTEREST, which
\* set its status to Interest, and saved, and the save has reset it.  The
\* statistics of the stored row count its usd as inflow and as interest.
C25_Witness ==
    /\ Len(db) = 1
    /\ db[1].tx_type = "INTEREST" /\ db[1].status = "Interest" /\ db[1].usd = 1
    /\ ~showUploadModal /\ modalFields # NullObject
    /\ db[1].usd = FilledEntryData(modalFields).usd
    /\ db[1].date = BuildPayload(FilledEntryData(modalFields), tzOffset).date
    /\ db[1].thb = Null /\ db[1].rate = Null
    /\ entryData = ResetEntryData
    /\ calculateFCDStats(db).interest_income = 1 /\ calculateFCDStats(db).total_in = 1

(***************************************************************************)
(* Overlapping saves and refreshes, checked under SaveSpec.                *)
(***************************************************************************)
\* Every fetchData call issued so far has completed.
AllFetchesCompleted == fetches = <<>> /\ ~loading

\* C26: when save-triggered refreshes overlap, then once all fetches have
\* completed the displayed entries and stats are those returned by the most
\* recently issued fetch, so they include every entry successfully appended
\* so far, whatever order the responses arrive in.  In SaveSpec every
\* append issues a fetch, which storage answers with the table as it is
\* then or later: the most recently issued fetch returns the whole table.
C26_LatestRefreshIsShown ==
    AllFetchesCompleted => entries = db /\ stats = calculateFCDStats(db)

\* C27: a valid draft is appended to storage at most once: a second
\* handleAddEntry invoked while the first addFCDEntry call is still in
\* flight does not submit the same draft again (no two calls in flight
\* carry the same payload), and after a successful append the draft is
\* reset (FX, IN, usd 0, thb 0, rate 0) so that saving again without edits
\* is rejected.
C27_DraftAppendedAtMostOnce ==
    /\ \A i, j \in DOMAIN pendingAdds : i # j => pendingAdds[i] # pendingAdds[j]
    /\ entryData = ResetEntryData => ValidationAlert(entryData) = AlertFx

(***************************************************************************)
(* The extracted fields and the image, checked under OcrSpec.              *)
(***************************************************************************)
\* C28: whenever modalFields is non-null it was extracted from the
\* currently held image: after handleImageUpload loads a new image or
\* resetOCR clears the image, modalFields stays null until an extractText
\* call started afterwards succeeds, even if an earlier extractText call is
\* still in flight when the image is replaced or cleared.  In particular
\* there are no extracted fields while no image is held.
C28_FieldsComeFromHeldImage == modalFields # NullObject => image # NoImage

(***************************************************************************)
(* C29: appending one entry changes each statistic by that entry's own     *)
(* contribution.                                                           *)
(***************************************************************************)
\* What a statistics record becomes when e's own contribution is added to
\* each field: e.usd on total_in or total_out by its status, +e.usd or
\* -e.usd on gold_profit by its tx_type, one on total_entries.
WithOwnContribution(before, e) ==
    [ total_in |-> IF IsInflow(e) THEN DoubleAdd(before.total_in, e.usd)
                   ELSE before.total_in,
      total_out |-> IF IsOutflow(e) THEN DoubleAdd(before.total_out, e.usd)
                    ELSE before.total_out,
      gold_profit |-> IF IsGoldSell(e) THEN DoubleAdd(before.gold_profit, e.usd)
                      ELSE IF IsGoldBuy(e) THEN DoubleSub(before.gold_profit, e.usd)
                      ELSE before.gold_profit,
      total_entries |-> before.total_entries + 1 ]

\* C29: for every entry list L and entry e, calculateFCDStats(L ++ [e])
\* is calculateFCDStats(L) with e's own contribution added: total_in grows
\* by e.usd iff e.status is IN or Interest, total_out by e.usd iff it is OUT,
\* gold_profit changes by +|e.usd| for GOLD_SELL and -|e.usd| for GOLD_BUY,
\* total_entries grows by one.  Violated by gold_profit on amounts with
\* cents: the sums of sales and purchases are subtracted after summing.
C29_AppendAddsOwnContribution ==
    list # <<>> =>
        LET L == SubSeq(list, 1, Len(list) - 1)
            e == list[Len(list)]
        IN  result = WithOwnContribution(calculateGoldDouble(L), e)

\* The counts and the two totals do follow the frame on the same lists.
C29_TotalsFollowTheFrame ==
    list # <<>> =>
        LET L == SubSeq(list, 1, Len(list) - 1)
            e == list[Len(list)]
            framed == WithOwnContribution(calculateGoldDouble(L), e)
        IN  /\ result.total_in = framed.total_in
            /\ result.total_out = framed.total_out
            /\ result.total_entries = framed.total_entries

(***************************************************************************)
(* C30: the weighted average rate lies within the participating rates.     *)
(***************************************************************************)
\* The rates of the rows that take part in the average.
ParticipatingRates(rows) ==
    { rows[i].rate : i \in { j \in 1..Len(rows) : ParticipatesInRate(rows[j]) } }

\* C30: when at least one row participates in the weighted average and
\* every participating row has usd > 0, weighted_avg_rate is not below the
\* smallest and not above the largest participating rate, and it equals r
\* when every participating row has the rate r.  Violated on rates with
\* satang: usd * rate and the division each round.
C30_AverageWithinRates ==
    LET rates == ParticipatingRates(list)
    IN  rates # {} =>
            /\ \E r \in rates : ~DoubleLess(result, r)
            /\ \E r \in rates : ~DoubleLess(r, result)
            /\ \A r \in rates : rates = {r} => result = r

\* The average is never further from the participating rates than between
\* half the smallest and twice the largest of them.
C30_AverageNearRates ==
    LET rates == ParticipatingRates(list)
    IN  rates # {} =>
            /\ \E r \in rates : ~DoubleLess(DoubleMul(DoubleOfInt(2), result), r)
            /\ \E r \in rates : ~DoubleLess(DoubleMul(DoubleOfInt(2), r), result)

====
